---- MODULE Spec2Model ----
(***************************************************************************)
(* A model of the OVN rule analyzer of the EgressIP performance analyzer   *)
(* (src/tools/egressip/ovn_rule_analyzer.py), of the MCP tool that drives  *)
(* its monitor (src/mcp/egress/egress_analyzer_mcp_server.py) and of the   *)
(* metrics the collector derives from an analysis                          *)
(* (src/tools/egressip/metrics_collector.py).                              *)
(*                                                                         *)
(* Text.  A line of command output is a sequence of tokens; an empty token *)
(* "" stands for one more whitespace character than the single separator   *)
(* between two tokens, so <<"", "snat", "a">> is " snat a" and             *)
(* <<"x", "", "y">> is "x  y".  str.strip, str.split and str.split(None,2) *)
(* are computed on that representation.  Timestamps are left out of every  *)
(* result: no claim reads them.                                            *)
(***************************************************************************)
EXTENDS Integers, Sequences, FiniteSets, TLC

VARIABLES
    an_pc,            \* analyze_node_rules: "idle" | "done"
    an_env,           \* what the command executor answered to that call
    analysis,         \* the dict analyze_node_rules returned
    cmp_pc,           \* compare_rules_across_nodes: "idle" | "loop" | "done"
    node_names,       \* its argument
    node_analyses,    \* its local dict node -> analysis
    cmp_i,            \* number of nodes already analysed by its loop
    comparison,       \* the dict it returned
    mon_pc,           \* monitor_rule_changes: "idle" | "exec" | "sleep" | "done" | "cancelled"
    duration_seconds, \* its argument
    snapshots,        \* its local list of snapshots
    check_interval,   \* its local check_interval (-1: not computed yet)
    checks_remaining, \* its local checks_remaining (-1: not computed yet)
    mon_i,            \* samples taken by its for loop
    sleep_log,        \* the delays handed to asyncio.sleep, in order
    exec_failures,    \* indices (in snapshots) of samples whose executor raised
    changes_left,     \* how often the observed rule state may still change
    last_obs,         \* the executor answers of the latest sample
    mon_result,       \* what monitor_rule_changes returned or raised
    exec_seconds,     \* how long the executor takes over one _take_rule_snapshot
    ca_snapshots,     \* change detection on its own: the snapshot list given
    change_analysis,  \* ... the dict _analyze_rule_changes returned for it
    stability,        \* ... the dict _assess_rule_stability returned for that
    px_pc,            \* rule extraction on its own: "idle" | "snat" | "lrp"
    px_answer,        \* ... what the command executor answered to the listing
    px_rules,         \* ... the list _get_snat_rules / _get_lrp_rules returned
    px_summary,       \* ... the dict _analyze_snat_rules / _analyze_lrp_rules returned
    cc_pc,            \* consistency check on its own: "idle" | "done"
    cc_answers,       \* ... the executor's answers to the two listings
    consistency,      \* ... the dict _check_rule_consistency returned for them
    se_pc,            \* concurrent sessions, by node: "idle" | "snat" | "lrp" | "sleep" | "done"
    se_minutes,       \* ... the duration_minutes given to the tool
    se_snapshots,     \* ... the snapshot lists of the calls in progress
    se_snat,          \* ... what _take_rule_snapshot holds of the SNAT listing
    se_checks,        \* ... the local checks_remaining (-1: not computed yet)
    se_i,             \* ... samples taken by the for loop
    se_result,        \* ... what monitor_rule_changes returned
    node_changed,     \* whether the rules of the node have changed
    exec_given,       \* the answers the executor gave for the node, in order
    tr_pc,            \* trend analysis: "idle" | "trend" | "simple"
    tr_metric_type,   \* ... the metric_type given to get_trend_analysis
    trend_data,       \* ... the daily aggregates its query fetched
    trend_result,     \* ... the dict get_trend_analysis returned
    tr_values,        \* ... a series handed to _simple_trend
    tr_trend,         \* ... what _simple_trend returned for it
    fp_pc,            \* two adjacent samples on their own: "idle" | "done"
    fp_obs,           \* ... the executor's answers to the two samples
    fp_snapshots,     \* ... the two snapshots _take_rule_snapshot made of them
    fp_changes,       \* ... the dict _analyze_rule_changes returned for the pair
    nh_pc,            \* get_ocp_node_health: "idle" | "loop" | "done"
    nh_i,             \* node groups its for loop has queried
    nh_answers,       \* what collect_all_metrics answered, in the order of the calls
    nh_calls,         \* the keyword arguments of those calls
    node_groups,      \* its local dict node_groups
    nh_errors,        \* its local list errors
    nh_response,      \* the NodeHealthResponse it returned
    elt_now,          \* ELT processor: the clock datetime.utcnow() reads, in ticks
    elt_extractions,  \* ... the rows of the table elt_extractions, in insertion order
    elt_log,          \* ... the extract_* calls made so far and how each ended
    cwd,              \* test runner: the working directory of the process
    run_pc,           \* ... by execution: "idle" | "pre_check" | "tidy" | "ginkgo" | "done"
    original_cwd,     \* ... the local original_cwd of _execute_test
    spawn_dirs,       \* ... the directories its subprocesses were started in
    run_result        \* ... what _execute_test (or run_test before it) returned

anVars  == <<an_pc, an_env, analysis>>
cmpVars == <<cmp_pc, node_names, node_analyses, cmp_i, comparison>>
monVars == <<mon_pc, duration_seconds, snapshots, check_interval, checks_remaining,
             mon_i, sleep_log, exec_failures, changes_left, last_obs, mon_result,
             exec_seconds>>
caVars  == <<ca_snapshots, change_analysis, stability>>
pxVars  == <<px_pc, px_answer, px_rules, px_summary>>
ccVars  == <<cc_pc, cc_answers, consistency>>
seVars  == <<se_pc, se_minutes, se_snapshots, se_snat, se_checks, se_i, se_result,
             node_changed, exec_given>>
trVars  == <<tr_pc, tr_metric_type, trend_data, trend_result, tr_values, tr_trend>>
fpVars  == <<fp_pc, fp_obs, fp_snapshots, fp_changes>>
nhVars  == <<nh_pc, nh_i, nh_answers, nh_calls, node_groups, nh_errors, nh_response>>
elVars  == <<elt_now, elt_extractions, elt_log>>
runVars == <<cwd, run_pc, original_cwd, spawn_dirs, run_result>>
vars    == <<anVars, cmpVars, monVars, caVars, pxVars, ccVars, seVars, trVars, fpVars,
             nhVars, elVars, runVars>>

-----------------------------------------------------------------------------
(* Bounds of the model.                                                    *)

MaxSnatLines == 2   \* lines of one lr-nat-list answer
MaxLrpLines  == 1   \* lines of one lr-policy-list answer
MaxNodes     == 2   \* nodes of one comparison
MaxChanges   == 2   \* changes of the observed rule state during one session
MaxSnaps     == 5   \* snapshots given to change detection on its own
MaxExecutions == 2   \* run_test calls in progress at the same time

-----------------------------------------------------------------------------
(* Generic helpers.                                                        *)

Has(d, k) == k \in DOMAIN d

Range(s) == {s[i] : i \in 1..Len(s)}

SeqsUpTo(S, n) == UNION {[1..k -> S] : k \in 0..n}

Min(a, b) == IF a <= b THEN a ELSE b

Max(a, b) == IF a >= b THEN a ELSE b

-----------------------------------------------------------------------------
(* Sample command output.                                                  *)

S1 == <<"", "snat", "10.0.0.1", "10.128.0.5", "k8s-worker-0">>
S2 == <<"SNAT", "10.0.0.2", "10.128.0.6", "k8s-worker-0">>
S3 == <<"snat", "10.0.0.3", "", "10.128.0.7", "k8s-worker-1">>
S4 == <<"snat", "10.0.0.3">>
S5 == <<"TYPE", "EXTERNAL_IP", "LOGICAL_IP", "EXTERNAL_PORT">>

S6 == <<"dnat_and_snat", "10.0.0.1", "10.128.0.5", "k8s-worker-0">>
S7 == <<"Snat", "10.0.0.2", "10.128.0.6", "k8s-worker-0", "0a:58:0a:80:00:06", "">>
S8 == <<"snat", "10.0.0.4", "10.128.0.5", "k8s-worker-1">>
S9 == <<"snat", "10.0.0.5", "10.128.0.6", "k8s-worker-1">>
S10 == <<"snat", "999.1.1.1", "10.128.0.7", "k8s-worker-1">>

SnatLines == {S1, S2, S3, S4, S5}

L1 == <<"100", "ip4.src==10.244.0.5", "reroute", "10.0.0.1">>
L2 == <<"100", "ip4.src==10.244.1.7", "reroute", "", "10.0.0.2">>
L3 == <<"Routing", "Policies">>
L4 == <<"101", "ip4.dst==10.0.0.3">>
L5 == <<"1004", "inport==rtos-w0", "allow">>

L6 == <<"abc", "ip4.src==10.244.0.5", "allow">>
L7 == <<"", "Routing", "Policies">>
L8 == <<"", "100", "", "ip4.src==10.244.0.5", "", "", "reroute", "10.0.0.1", "">>
L9 == <<"100", "ip4.src==10.244.0.5", "reroute", "10.0.0.3">>
L10 == <<"100", "ip4.src==10.244.1.7", "reroute", "10.0.0.4">>
L11 == <<"100", "ip4.src==10.244.1.7", "reroute", "10.0.0.5">>
L12 == <<"100", "ip4.src==10.244.1.7", "reroute", "999.1.1.1">>

LrpLines == {L1, L2, L3, L4, L5, <<>>}

IPs == {"10.0.0.1", "10.0.0.2", "10.0.0.3"}

-----------------------------------------------------------------------------
(* Strings.                                                                *)

\* str.lower of one token
Lower(tok) ==
    CASE tok = "SNAT" -> "snat"
      [] tok = "Snat" -> "snat"
      [] tok = "TYPE" -> "type"
      [] tok = "EXTERNAL_IP" -> "external_ip"
      [] tok = "LOGICAL_IP" -> "logical_ip"
      [] tok = "EXTERNAL_PORT" -> "external_port"
      [] tok = "Routing" -> "routing"
      [] tok = "Policies" -> "policies"
      [] OTHER -> tok

\* 'snat' in tok, for a lower-cased token
HasSnatSubstring(tok) == tok \in {"snat", "dnat_and_snat"}

\* tok.startswith('Routing')
StartsWithRouting(tok) == tok \in {"Routing"}

\* re.findall(r'\b\d{1,3}\.\d{1,3}\.\d{1,3}\.\d{1,3}\b', tok)
FindIPs(tok) ==
    CASE tok = "ip4.src==10.244.0.5" -> {"10.244.0.5"}
      [] tok = "ip4.src==10.244.1.7" -> {"10.244.1.7"}
      [] tok = "ip4.dst==10.0.0.3" -> {"10.0.0.3"}
      [] tok \in {"10.0.0.1", "10.0.0.2", "10.0.0.3", "10.0.0.4", "10.0.0.5",
                  "10.128.0.5", "10.128.0.6", "10.128.0.7", "999.1.1.1"} -> {tok}
      [] OTHER -> {}

\* int(tok): <<TRUE, n>>, or <<FALSE, 0>> for ValueError
ParseInt(tok) ==
    CASE tok = "100" -> <<TRUE, 100>>
      [] tok = "101" -> <<TRUE, 101>>
      [] tok = "1004" -> <<TRUE, 1004>>
      [] OTHER -> <<FALSE, 0>>

RECURSIVE LStrip(_)
LStrip(line) ==
    IF line # <<>> /\ Head(line) = "" THEN LStrip(Tail(line)) ELSE line

RECURSIVE RStrip(_)
RStrip(line) ==
    IF line # <<>> /\ line[Len(line)] = ""
    THEN RStrip(SubSeq(line, 1, Len(line) - 1))
    ELSE line

\* line.strip()
Strip(line) == RStrip(LStrip(line))

IsToken(tok) == tok # ""

\* line.split()
Split(line) == SelectSeq(line, IsToken)

\* position in line of its n-th token (n >= 1; the line has that many tokens)
RECURSIVE TokenPos(_, _, _)
TokenPos(line, n, from) ==
    IF line[from] # ""
    THEN IF n = 1 THEN from ELSE TokenPos(line, n - 1, from + 1)
    ELSE TokenPos(line, n, from + 1)

\* a slip that splits the whole line and joins the rest with single spaces
Split2Rejoined(line) ==
    LET toks == Split(line) IN
    IF Len(toks) < 3 THEN toks
    ELSE <<toks[1], toks[2], SubSeq(toks, 3, Len(toks))>>

\* line.split(None, 2): at most two splits, the rest of the line kept as it is
Split2(line) ==
    LET toks == Split(line) IN
    IF Len(toks) < 3 THEN toks
    ELSE <<toks[1], toks[2], SubSeq(line, TokenPos(line, 3, 1), Len(line))>>

\* 'snat' in line.lower()
ContainsSnat(line) == \E i \in 1..Len(line) : HasSnatSubstring(Lower(line[i]))

\* the place of a stripped line in Python's ordering of str
StrRank(raw) ==
    CASE raw = <<>> -> 0
      [] raw = Strip(L1) -> 1
      [] raw = Strip(L2) -> 2
      [] raw = Strip(L5) -> 3
      [] raw = Strip(L4) -> 4
      [] raw = Strip(L3) -> 5
      [] raw = Strip(S2) -> 6
      [] raw = Strip(S5) -> 7
      [] raw = Strip(S1) -> 8
      [] raw = Strip(S4) -> 9
      [] raw = Strip(S3) -> 10

NumRanks == Cardinality(SnatLines \cup LrpLines)

\* sorted(list of str)
RECURSIVE Insert(_, _)
Insert(x, s) ==
    IF s = <<>> THEN <<x>>
    ELSE IF StrRank(x) <= StrRank(Head(s)) THEN <<x>> \o s
    ELSE <<Head(s)>> \o Insert(x, Tail(s))

RECURSIVE Sorted(_)
Sorted(s) == IF s = <<>> THEN <<>> ELSE Insert(Head(s), Sorted(Tail(s)))

\* hash(str(list of str)): equal lists hash alike; on the lists of this model
\* different lists hash apart, as a 64-bit hash of a handful of short strings does
RECURSIVE Hash(_)
Hash(s) == IF s = <<>> THEN 0 ELSE StrRank(Head(s)) + 1 + (NumRanks + 1) * Hash(Tail(s))

-----------------------------------------------------------------------------
(* Rule Parser.                                                            *)

\* a slip that compares the leading token as it is written
ParseSnatCaseSensitive(rule_line) ==
    LET parts == Split(Strip(rule_line)) IN
    IF Len(parts) >= 4 /\ parts[1] = "snat"
    THEN [type |-> "snat", external_ip |-> parts[2], logical_ip |-> parts[3],
          logical_port |-> parts[4], raw_rule |-> rule_line,
          parsed_successfully |-> TRUE]
    ELSE [type |-> "snat", raw_rule |-> rule_line, parsed_successfully |-> FALSE]

_parse_snat_rule(rule_line) ==
    LET parts == Split(Strip(rule_line)) IN
    IF Len(parts) >= 4 /\ Lower(parts[1]) = "snat"
    THEN [type |-> "snat", external_ip |-> parts[2], logical_ip |-> parts[3],
          logical_port |-> parts[4], raw_rule |-> rule_line,
          parsed_successfully |-> TRUE]
    ELSE [type |-> "snat", raw_rule |-> rule_line, parsed_successfully |-> FALSE]

_parse_lrp_rule(rule_line) ==
    LET parts == Split2(Strip(rule_line)) IN
    IF Len(parts) >= 3
    THEN [type |-> "lrp", priority |-> parts[1], match |-> parts[2],
          action |-> parts[3], raw_rule |-> rule_line, parsed_successfully |-> TRUE]
    ELSE [type |-> "lrp", raw_rule |-> rule_line, parsed_successfully |-> FALSE]

\* An answer of the command executor: the call raised, or it gave an exit
\* code and the lines of stdout.
ExecRaise == [raised |-> TRUE, returncode |-> 0, stdout |-> <<>>]

ExecFail == [raised |-> FALSE, returncode |-> 1, stdout |-> <<>>]

ExecOk(lines) == [raised |-> FALSE, returncode |-> 0, stdout |-> lines]

RECURSIVE SnatRulesOf(_)
SnatRulesOf(lines) ==
    IF lines = <<>> THEN <<>>
    ELSE LET line == Strip(Head(lines)) IN
         (IF ContainsSnat(line) THEN <<_parse_snat_rule(line)>> ELSE <<>>)
             \o SnatRulesOf(Tail(lines))

\* a slip that keeps the records that parsed only
GetSnatRulesParsedOnly(answer) ==
    LET Parsed(rule) == rule.parsed_successfully IN
    IF answer.raised THEN <<>>
    ELSE IF answer.returncode # 0 THEN <<>>
    ELSE SelectSeq(SnatRulesOf(answer.stdout), Parsed)

_get_snat_rules(answer) ==
    IF answer.raised THEN <<>>
    ELSE IF answer.returncode # 0 THEN <<>>
    ELSE SnatRulesOf(answer.stdout)

RECURSIVE LrpRulesOf(_)
LrpRulesOf(lines) ==
    IF lines = <<>> THEN <<>>
    ELSE LET line == Strip(Head(lines)) IN
         (IF line # <<>> /\ ~StartsWithRouting(line[1])
          THEN <<_parse_lrp_rule(line)>> ELSE <<>>)
             \o LrpRulesOf(Tail(lines))

\* a slip that gives up the listing at a line that does not parse
GetLrpRulesUntilMalformed(answer) ==
    LET rules == LrpRulesOf(answer.stdout) IN
    IF answer.raised THEN <<>>
    ELSE IF answer.returncode # 0 THEN <<>>
    ELSE IF \E k \in 1..Len(rules) : ~rules[k].parsed_successfully THEN <<>>
    ELSE rules

_get_lrp_rules(answer) ==
    IF answer.raised THEN <<>>
    ELSE IF answer.returncode # 0 THEN <<>>
    ELSE LrpRulesOf(answer.stdout)

-----------------------------------------------------------------------------
(* Consistency Validator.                                                  *)

\* A Python float that is the quotient of two small integers.
Float(n, d) == [num |-> n, den |-> d]

ParsedIndices(rules) == {i \in 1..Len(rules) : rules[i].parsed_successfully}

RECURSIVE FailedToParse(_)
FailedToParse(rules) ==
    IF rules = <<>> THEN <<>>
    ELSE (IF Head(rules).parsed_successfully THEN <<>>
          ELSE <<<<"Failed to parse rule", Head(rules).raw_rule>>>>)
             \o FailedToParse(Tail(rules))

_analyze_snat_rules(snat_rules) ==
    LET external_ips == {snat_rules[i].external_ip : i \in ParsedIndices(snat_rules)}
        logical_ips  == {snat_rules[i].logical_ip : i \in ParsedIndices(snat_rules)}
    IN  [total_rules |-> Len(snat_rules),
         parsed_successfully |-> Cardinality(ParsedIndices(snat_rules)),
         external_ips |-> external_ips,
         logical_ips |-> logical_ips,
         potential_issues |-> FailedToParse(snat_rules),
         unique_external_ips |-> Cardinality(external_ips),
         unique_logical_ips |-> Cardinality(logical_ips)]

RECURSIVE LrpPriorities(_)
LrpPriorities(rules) ==
    IF rules = <<>> THEN <<>>
    ELSE (IF Head(rules).parsed_successfully /\ ParseInt(Head(rules).priority)[1]
          THEN <<ParseInt(Head(rules).priority)[2]>> ELSE <<>>)
             \o LrpPriorities(Tail(rules))

RECURSIVE LrpIssues(_)
LrpIssues(rules) ==
    IF rules = <<>> THEN <<>>
    ELSE (IF Head(rules).parsed_successfully
          THEN IF ParseInt(Head(rules).priority)[1] THEN <<>>
               ELSE <<<<"Invalid priority", Head(rules).priority>>>>
          ELSE <<<<"Failed to parse rule", Head(rules).raw_rule>>>>)
             \o LrpIssues(Tail(rules))

\* rule["action"].split()[0]
ActionVerb(rule) == Split(rule.action)[1]

_analyze_lrp_rules(lrp_rules) ==
    LET priorities == LrpPriorities(lrp_rules)
        verbs == {ActionVerb(lrp_rules[i]) : i \in ParsedIndices(lrp_rules)}
    IN  [total_rules |-> Len(lrp_rules),
         parsed_successfully |-> Cardinality(ParsedIndices(lrp_rules)),
         priorities |-> priorities,
         action_types |->
             [v \in verbs |->
                 Cardinality({i \in ParsedIndices(lrp_rules) : ActionVerb(lrp_rules[i]) = v})],
         potential_issues |-> LrpIssues(lrp_rules),
         priority_stats |->
             IF priorities # <<>>
             THEN [min |-> CHOOSE p \in Range(priorities) : \A q \in Range(priorities) : p <= q,
                   max |-> CHOOSE p \in Range(priorities) : \A q \in Range(priorities) : p >= q,
                   unique_count |-> Cardinality(Range(priorities))]
             ELSE [min |-> 0, max |-> 0, unique_count |-> 0]]

\* the external IPs of the rules that parsed (lines 442-445 and 497-501)
SnatExternalIPs(snat_rules) ==
    {snat_rules[i].external_ip : i \in ParsedIndices(snat_rules)}

\* the IPv4 literals found in "match action" of the rules that parsed
LrpIPReferences(lrp_rules) ==
    UNION {FindIPs(lrp_rules[i].match)
               \cup UNION {FindIPs(lrp_rules[i].action[j]) : j \in 1..Len(lrp_rules[i].action)}
           : i \in ParsedIndices(lrp_rules)}

\* a slip that takes the thresholds themselves into the better class
ClassifyInclusive(n, d) ==
    IF 10 * n >= 8 * d THEN "good"
    ELSE IF 2 * n >= d THEN "moderate"
    ELSE "poor"

\* the classification of a computed ratio n/d (lines 468-474)
Classify(n, d) ==
    IF 10 * n > 8 * d THEN "good"
    ELSE IF 2 * n > d THEN "moderate"
    ELSE "poor"

\* a slip that takes the ratio over the LRP references
CheckRuleConsistencyOverLrp(snat_rules, lrp_rules) ==
    LET snat_external_ips == SnatExternalIPs(snat_rules)
        lrp_ip_references == LrpIPReferences(lrp_rules)
        snat_in_lrp == snat_external_ips \cap lrp_ip_references
        details == [snat_external_ips |-> snat_external_ips,
                    lrp_ip_references |-> lrp_ip_references,
                    correlated_ips |-> snat_in_lrp]
    IN  IF snat_external_ips # {} /\ lrp_ip_references # {}
        THEN LET n == Cardinality(snat_in_lrp)
                 d == Cardinality(lrp_ip_references)
             IN  [snat_lrp_correlation |-> Classify(n, d),
                  issues_found |->
                      IF Classify(n, d) = "poor"
                      THEN <<"Low correlation between SNAT and LRP rules">> ELSE <<>>,
                  consistency_score |-> Float(n, d),
                  details |-> details]
        ELSE [snat_lrp_correlation |-> "unknown",
              issues_found |-> <<>>,
              consistency_score |-> Float(0, 1),
              details |-> details]

_check_rule_consistency(snat_rules, lrp_rules) ==
    LET snat_external_ips == SnatExternalIPs(snat_rules)
        lrp_ip_references == LrpIPReferences(lrp_rules)
        snat_in_lrp == snat_external_ips \cap lrp_ip_references
        details == [snat_external_ips |-> snat_external_ips,
                    lrp_ip_references |-> lrp_ip_references,
                    correlated_ips |-> snat_in_lrp]
    IN  IF snat_external_ips # {} /\ lrp_ip_references # {}
        THEN LET n == Cardinality(snat_in_lrp)
                 d == Cardinality(snat_external_ips)
             IN  [snat_lrp_correlation |-> Classify(n, d),
                  issues_found |->
                      IF Classify(n, d) = "poor"
                      THEN <<"Low correlation between SNAT and LRP rules">> ELSE <<>>,
                  consistency_score |-> Float(n, d),
                  details |-> details]
        ELSE [snat_lrp_correlation |-> "unknown",
              issues_found |-> <<>>,
              consistency_score |-> Float(0, 1),
              details |-> details]

\* The answers to `oc get egressips -o json`: the call raised, exited
\* non-zero, printed what json.loads rejects, or printed the objects.
EipRaise == [raised |-> TRUE, returncode |-> 0, json_ok |-> FALSE, items |-> <<>>]

EipFail == [raised |-> FALSE, returncode |-> 1, json_ok |-> FALSE, items |-> <<>>]

EipBadJson == [raised |-> FALSE, returncode |-> 0, json_ok |-> FALSE, items |-> <<>>]

EipOk(items) == [raised |-> FALSE, returncode |-> 0, json_ok |-> TRUE, items |-> items]

\* one EgressIP object whose status assigns the IPs of `assigned`
EipItems(assigned) ==
    IF assigned = {} THEN <<>>
    ELSE <<[name |-> "egressip-0", spec_ips |-> IPs,
            status_items |-> {[egressIP |-> ip, node |-> "worker-0"] : ip \in assigned}
                                 \cup {[node |-> "worker-1"]}]>>

\* a slip that takes an unreachable assignment source for one with no objects
ContextEmptyOnFailure(answer) ==
    [available |-> TRUE,
     egressip_objects |-> IF answer.raised \/ answer.returncode # 0 \/ ~answer.json_ok
                          THEN <<>> ELSE answer.items,
     total_assigned_ips |->
         UNION {{s.egressIP : s \in {t \in answer.items[k].status_items : Has(t, "egressIP")}}
                : k \in 1..Len(answer.items)},
     total_egressip_count |-> Len(answer.items)]

_get_egressip_context(answer) ==
    IF answer.raised THEN [available |-> FALSE, error |-> "exception"]
    ELSE IF answer.returncode = 0
    THEN IF ~answer.json_ok THEN [available |-> FALSE, error |-> "exception"]
         ELSE [available |-> TRUE,
               egressip_objects |-> answer.items,
               total_assigned_ips |->
                   UNION {{s.egressIP : s \in {t \in answer.items[k].status_items : Has(t, "egressIP")}}
                          : k \in 1..Len(answer.items)},
               total_egressip_count |-> Len(answer.items)]
    ELSE [available |-> FALSE, error |-> "stderr"]

\* a slip that takes the difference the wrong way round
MissingSnatReversed(assigned_ips, snat_external_ips) == snat_external_ips \ assigned_ips

\* line 504
MissingSnat(assigned_ips, snat_external_ips) == assigned_ips \ snat_external_ips

\* line 505
UnexpectedSnat(assigned_ips, snat_external_ips) == snat_external_ips \ assigned_ips

_validate_rules_against_egressips(snat_rules, lrp_rules, egressip_context) ==
    LET validation_possible ==
            IF Has(egressip_context, "available") THEN egressip_context.available ELSE FALSE
    IN  IF ~validation_possible
        THEN [validation_possible |-> FALSE,
              missing_snat_rules |-> {},
              unexpected_snat_rules |-> {},
              validation_summary |-> <<>>,
              error |-> IF Has(egressip_context, "error") THEN egressip_context.error
                        ELSE "EgressIP context not available"]
        ELSE LET assigned_ips == egressip_context.total_assigned_ips
                 snat_external_ips == SnatExternalIPs(snat_rules)
                 missing == MissingSnat(assigned_ips, snat_external_ips)
                 unexpected == UnexpectedSnat(assigned_ips, snat_external_ips)
             IN  [validation_possible |-> TRUE,
                  missing_snat_rules |-> missing,
                  unexpected_snat_rules |-> unexpected,
                  validation_summary |->
                      [total_assigned_egressips |-> Cardinality(assigned_ips),
                       total_snat_external_ips |-> Cardinality(snat_external_ips),
                       missing_rules_count |-> Cardinality(missing),
                       unexpected_rules_count |-> Cardinality(unexpected),
                       validation_passed |->
                           Cardinality(missing) = 0 /\ Cardinality(unexpected) = 0]]

\* a slip that leaves the list as it is
OrNothing(recommendations) == recommendations

\* lines 549-550
OrNoIssues(recommendations) ==
    IF recommendations = <<>> THEN <<<<"OVN rules analysis shows no major issues">>>>
    ELSE recommendations

_generate_recommendations(snat_analysis, lrp_analysis, consistency_check, validation_results) ==
    LET snat == IF snat_analysis.total_rules = 0 THEN <<<<"No SNAT rules found">>>>
                ELSE IF snat_analysis.parsed_successfully < snat_analysis.total_rules
                THEN <<<<"Some SNAT rules failed to parse">>>>
                ELSE <<>>
        lrp  == IF lrp_analysis.total_rules = 0 THEN <<<<"No LRP rules found">>>>
                ELSE IF lrp_analysis.parsed_successfully < lrp_analysis.total_rules
                THEN <<<<"Some LRP rules failed to parse">>>>
                ELSE <<>>
        cons == IF 2 * consistency_check.consistency_score.num
                       < consistency_check.consistency_score.den
                THEN <<<<"Poor correlation between SNAT and LRP rules">>>>
                ELSE <<>>
        summary == validation_results.validation_summary
        miss == IF validation_results.validation_possible
                   /\ summary.missing_rules_count > 0
                THEN <<<<"Missing SNAT rules", summary.missing_rules_count>>>>
                ELSE <<>>
        unex == IF validation_results.validation_possible
                   /\ summary.unexpected_rules_count > 0
                THEN <<<<"Unexpected SNAT rules", summary.unexpected_rules_count>>>>
                ELSE <<>>
        recommendations == snat \o lrp \o cons \o miss \o unex
    IN  OrNoIssues(recommendations)

\* The answer to `ovn-nbctl show`: TRUE when it exited 0.
_get_ovn_database_info(answer) ==
    IF answer THEN [available |-> TRUE] ELSE [available |-> FALSE, error |-> "stderr"]

\* analyze_node_rules, given the executor's four answers
analyze_node_rules(node_name, env) ==
    LET snat_rules == _get_snat_rules(env.snat)
        lrp_rules == _get_lrp_rules(env.lrp)
        ovn_info == _get_ovn_database_info(env.db)
        snat_analysis == _analyze_snat_rules(snat_rules)
        lrp_analysis == _analyze_lrp_rules(lrp_rules)
        consistency_check == _check_rule_consistency(snat_rules, lrp_rules)
        egressip_context == _get_egressip_context(env.eip)
        validation_results ==
            _validate_rules_against_egressips(snat_rules, lrp_rules, egressip_context)
    IN  [status |-> "success",
         node_name |-> node_name,
         rule_counts |-> [snat_rules |-> Len(snat_rules), lrp_rules |-> Len(lrp_rules)],
         snat_analysis |-> snat_analysis,
         lrp_analysis |-> lrp_analysis,
         consistency_check |-> consistency_check,
         egressip_validation |-> validation_results,
         ovn_database_info |-> ovn_info,
         recommendations |->
             _generate_recommendations(snat_analysis, lrp_analysis, consistency_check,
                                       validation_results)]

\* EgressIPMetricsCollector._collect_node_ovn_metrics, given the analysis
_collect_node_ovn_metrics(result) ==
    IF result.status = "success"
    THEN [snat_rules_count |-> result.rule_counts.snat_rules,
          lrp_rules_count |-> result.rule_counts.lrp_rules,
          parsing_errors |-> Len(result.snat_analysis.potential_issues)
                                 + Len(result.lrp_analysis.potential_issues),
          consistency_score |-> result.consistency_check.consistency_score]
    ELSE [snat_rules_count |-> 0,
          lrp_rules_count |-> 0,
          parsing_errors |-> 1,
          consistency_score |-> Float(0, 1),
          error |-> IF Has(result, "error") THEN result.error ELSE "Unknown error"]

-----------------------------------------------------------------------------
(* The environment: what the command executor may answer.                  *)

Nodes == {"worker-0", "worker-1"}

SnatAnswers == {ExecRaise, ExecFail} \cup {ExecOk(l) : l \in SeqsUpTo(SnatLines, MaxSnatLines)}

LrpAnswers == {ExecRaise, ExecFail} \cup {ExecOk(l) : l \in SeqsUpTo(LrpLines, MaxLrpLines)}

EipAnswers == {EipRaise, EipFail, EipBadJson} \cup {EipOk(EipItems(a)) : a \in SUBSET IPs}

Envs == [snat : SnatAnswers, lrp : LrpAnswers, eip : EipAnswers, db : BOOLEAN]

NoEnv == [snat |-> ExecFail, lrp |-> ExecFail, eip |-> EipFail, db |-> FALSE]

NoResult == [status |-> "none"]

-----------------------------------------------------------------------------
(* Idle values of the groups of variables.                                 *)

AnIdle ==
    /\ an_pc = "idle"
    /\ an_env = NoEnv
    /\ analysis = NoResult

CmpIdle ==
    /\ cmp_pc = "idle"
    /\ node_names = <<>>
    /\ node_analyses = <<>>
    /\ cmp_i = 0
    /\ comparison = NoResult

MonIdle ==
    /\ mon_pc = "idle"
    /\ duration_seconds = 0
    /\ snapshots = <<>>
    /\ check_interval = -1
    /\ checks_remaining = -1
    /\ mon_i = 0
    /\ sleep_log = <<>>
    /\ exec_failures = {}
    /\ changes_left = 0
    /\ last_obs = NoEnv
    /\ mon_result = NoResult
    /\ exec_seconds = 0

CaIdle ==
    /\ ca_snapshots = <<>>
    /\ change_analysis = NoResult
    /\ stability = NoResult

PxIdle ==
    /\ px_pc = "idle"
    /\ px_answer = ExecFail
    /\ px_rules = <<>>
    /\ px_summary = NoResult

CcIdle ==
    /\ cc_pc = "idle"
    /\ cc_answers = [snat |-> ExecFail, lrp |-> ExecFail]
    /\ consistency = NoResult

SeIdle ==
    /\ se_pc = [n \in Nodes |-> "idle"]
    /\ se_minutes = [n \in Nodes |-> 0]
    /\ se_snapshots = [n \in Nodes |-> <<>>]
    /\ se_snat = [n \in Nodes |-> ExecFail]
    /\ se_checks = [n \in Nodes |-> -1]
    /\ se_i = [n \in Nodes |-> 0]
    /\ se_result = [n \in Nodes |-> NoResult]
    /\ node_changed = [n \in Nodes |-> FALSE]
    /\ exec_given = [n \in Nodes |-> <<>>]

TrIdle ==
    /\ tr_pc = "idle"
    /\ tr_metric_type = ""
    /\ trend_data = <<>>
    /\ trend_result = NoResult
    /\ tr_values = <<>>
    /\ tr_trend = ""

FpIdle ==
    /\ fp_pc = "idle"
    /\ fp_obs = <<>>
    /\ fp_snapshots = <<>>
    /\ fp_changes = NoResult

NhIdle ==
    /\ nh_pc = "idle"
    /\ nh_i = 0
    /\ nh_answers = <<>>
    /\ nh_calls = <<>>
    /\ node_groups = <<>>
    /\ nh_errors = <<>>
    /\ nh_response = NoResult

ElIdle ==
    /\ elt_now = 0
    /\ elt_extractions = <<>>
    /\ elt_log = <<>>

\* A directory is a number: 0 is the directory the server was started in,
\* e > 0 the directory tempfile.mkdtemp made for execution e.
RunIdle ==
    /\ cwd = 0
    /\ run_pc = [e \in 1..MaxExecutions |-> "idle"]
    /\ original_cwd = [e \in 1..MaxExecutions |-> -1]
    /\ spawn_dirs = [e \in 1..MaxExecutions |-> <<>>]
    /\ run_result = [e \in 1..MaxExecutions |-> NoResult]

-----------------------------------------------------------------------------
(* Single-node analysis: validate_snat_lrp_rules -> analyze_node_rules.    *)

AnalyzeNodeRules ==
    /\ an_pc = "idle"
    /\ \E env \in Envs :
           /\ an_env' = env
           /\ analysis' = analyze_node_rules("worker-0", env)
    /\ an_pc' = "done"
    /\ UNCHANGED <<cmpVars, monVars, caVars, pxVars, ccVars, seVars, trVars, fpVars, nhVars, elVars, runVars>>

AnalysisReturned ==
    /\ an_pc = "done"
    /\ an_pc' = "idle"
    /\ an_env' = NoEnv
    /\ analysis' = NoResult
    /\ UNCHANGED <<cmpVars, monVars, caVars, pxVars, ccVars, seVars, trVars, fpVars, nhVars, elVars, runVars>>

AnInit == AnIdle /\ CmpIdle /\ MonIdle /\ CaIdle /\ PxIdle /\ CcIdle /\ SeIdle /\ TrIdle /\ FpIdle /\ NhIdle
    /\ ElIdle /\ RunIdle

AnNext == AnalyzeNodeRules \/ AnalysisReturned

SpecAnalysis == AnInit /\ [][AnNext]_vars

-----------------------------------------------------------------------------
(* Drift Monitor: snapshots, change detection, stability.                  *)

\* a slip that fingerprints the raw rules in the order they were listed
TakeRuleSnapshotUnsorted(obs) ==
    LET snat_rules == _get_snat_rules(obs.snat)
        lrp_rules == _get_lrp_rules(obs.lrp)
    IN  [snat_count |-> Len(snat_rules),
         lrp_count |-> Len(lrp_rules),
         snat_rules_hash |-> Hash([i \in 1..Len(snat_rules) |-> snat_rules[i].raw_rule]),
         lrp_rules_hash |-> Hash([i \in 1..Len(lrp_rules) |-> lrp_rules[i].raw_rule])]

\* _take_rule_snapshot, given the executor's two answers
_take_rule_snapshot(obs) ==
    LET snat_rules == _get_snat_rules(obs.snat)
        lrp_rules == _get_lrp_rules(obs.lrp)
    IN  [snat_count |-> Len(snat_rules),
         lrp_count |-> Len(lrp_rules),
         snat_rules_hash |->
             Hash(Sorted([i \in 1..Len(snat_rules) |-> snat_rules[i].raw_rule])),
         lrp_rules_hash |->
             Hash(Sorted([i \in 1..Len(lrp_rules) |-> lrp_rules[i].raw_rule]))]

\* a slip that compares the counts and forgets the fingerprints
ChangedKeysCountsOnly(prev, curr) ==
    (IF prev.snat_count # curr.snat_count THEN {"snat_count_change"} ELSE {})
    \cup (IF prev.lrp_count # curr.lrp_count THEN {"lrp_count_change"} ELSE {})

\* the keys of snapshot_changes for one adjacent pair (lines 577-601)
ChangedKeys(prev, curr) ==
    (IF prev.snat_count # curr.snat_count THEN {"snat_count_change"} ELSE {})
    \cup (IF prev.lrp_count # curr.lrp_count THEN {"lrp_count_change"} ELSE {})
    \cup (IF prev.snat_rules_hash # curr.snat_rules_hash THEN {"snat_content_change"} ELSE {})
    \cup (IF prev.lrp_rules_hash # curr.lrp_rules_hash THEN {"lrp_content_change"} ELSE {})

\* snapshot_changes for one adjacent pair
SnapshotChanges(prev, curr) ==
    [k \in ChangedKeys(prev, curr) |->
        CASE k = "snat_count_change" -> [from |-> prev.snat_count, to |-> curr.snat_count]
          [] k = "lrp_count_change" -> [from |-> prev.lrp_count, to |-> curr.lrp_count]
          [] OTHER -> <<>>]   \* only the timestamp, which is left out

\* the list `changes` after the loop has compared the pairs (i-1, i), i < n
RECURSIVE ChangesUpTo(_, _)
ChangesUpTo(snaps, n) ==
    IF n < 2 THEN <<>>
    ELSE ChangesUpTo(snaps, n - 1)
             \o (IF ChangedKeys(snaps[n - 1], snaps[n]) # {}
                 THEN <<SnapshotChanges(snaps[n - 1], snaps[n])>> ELSE <<>>)

_analyze_rule_changes(snaps) ==
    IF Len(snaps) < 2
    THEN [changes_detected |-> FALSE, reason |-> "Insufficient snapshots"]
    ELSE LET changes == ChangesUpTo(snaps, Len(snaps))
         IN  [changes_detected |-> Len(changes) > 0,
              total_change_events |-> Len(changes),
              changes |-> changes]

\* a slip that moves the threshold between mostly_stable and unstable
AssessThresholdThree(ca) ==
    IF ~ca.changes_detected
    THEN [stability |-> "stable", confidence |-> "high"]
    ELSE IF ca.total_change_events <= 3
    THEN [stability |-> "mostly_stable", confidence |-> "medium",
          change_count |-> ca.total_change_events]
    ELSE [stability |-> "unstable", confidence |-> "high",
          change_count |-> ca.total_change_events]

_assess_rule_stability(ca) ==
    IF ~ca.changes_detected
    THEN [stability |-> "stable", confidence |-> "high"]
    ELSE IF ca.total_change_events <= 2
    THEN [stability |-> "mostly_stable", confidence |-> "medium",
          change_count |-> ca.total_change_events]
    ELSE [stability |-> "unstable", confidence |-> "high",
          change_count |-> ca.total_change_events]

\* the interval with max in the place of min
CheckIntervalMax(d) == Max(30, d \div 10)

\* check_interval = min(30, duration_seconds // 10)
CheckInterval(d) == Min(30, d \div 10)

\* the dict monitor_rule_changes returns from its try block (lines 139-150)
MonitorSuccess(node_name, d, snaps) ==
    LET ca == _analyze_rule_changes(snaps)
    IN  [status |-> "success",
         node_name |-> node_name,
         monitoring_duration |-> d,
         snapshots_taken |-> Len(snaps),
         change_analysis |-> ca,
         stability_assessment |-> _assess_rule_stability(ca),
         detailed_snapshots |-> snaps]

\* the dict monitor_rule_changes returns from `except Exception` (lines 152-159)
MonitorError(node_name, e) ==
    [status |-> "error", error |-> e, node_name |-> node_name]

MonObs ==
    {[snat |-> ExecOk(<<S1>>), lrp |-> ExecOk(<<L1>>)],
     [snat |-> ExecOk(<<S1, S2>>), lrp |-> ExecOk(<<L1>>)],
     [snat |-> ExecRaise, lrp |-> ExecRaise]}

Durations == {0, 5, 10, 100, 330}

ToolMinutes == {0, 1, 5}

ObsOf(obs) == [snat |-> obs.snat, lrp |-> obs.lrp, eip |-> EipFail, db |-> FALSE]

\* the executor answers at once, or takes its time
ExecSeconds == {0, 7}

StartMonitor(d) ==
    /\ mon_pc = "idle"
    /\ mon_pc' = "exec"
    /\ duration_seconds' = d
    /\ \E t \in ExecSeconds : exec_seconds' = t
    /\ snapshots' = <<>>
    /\ changes_left' = MaxChanges
    /\ UNCHANGED <<check_interval, checks_remaining, mon_i, sleep_log, exec_failures,
                   last_obs, mon_result>>
    /\ UNCHANGED <<anVars, cmpVars, caVars, pxVars, ccVars, seVars, trVars, fpVars, nhVars, elVars, runVars>>

\* a direct call of monitor_rule_changes(node_name, duration_seconds)
MonitorRuleChanges == \E d \in Durations : StartMonitor(d)

\* the MCP tool monitor_ovn_rules(node_name, duration_minutes)
MonitorOvnRules == \E m \in ToolMinutes : StartMonitor(m * 60)

\* the executor answers one _take_rule_snapshot; the rule state it shows
\* differs from the previous one at most MaxChanges times in a session
Observe(obs) ==
    /\ obs \in MonObs
    /\ IF snapshots = <<>> \/ ObsOf(obs) = last_obs
       THEN changes_left' = changes_left
       ELSE changes_left > 0 /\ changes_left' = changes_left - 1
    /\ last_obs' = ObsOf(obs)
    /\ snapshots' = Append(snapshots, _take_rule_snapshot(obs))
    /\ exec_failures' = IF obs.snat.raised \/ obs.lrp.raised
                        THEN exec_failures \cup {Len(snapshots) + 1}
                        ELSE exec_failures

\* lines 126-131 and, when the loop has nothing to do, 139-150
TakeBaseline ==
    /\ mon_pc = "exec"
    /\ snapshots = <<>>
    /\ \E obs \in MonObs : Observe(obs)
    /\ check_interval' = CheckInterval(duration_seconds)
    /\ IF check_interval' = 0
       THEN /\ mon_result' = MonitorError("worker-0", "ZeroDivisionError")
            /\ mon_pc' = "done"
            /\ UNCHANGED checks_remaining
       ELSE /\ checks_remaining' = duration_seconds \div check_interval'
            /\ IF checks_remaining' > 0
               THEN mon_pc' = "sleep" /\ UNCHANGED mon_result
               ELSE /\ mon_pc' = "done"
                    /\ mon_result' = MonitorSuccess("worker-0", duration_seconds, snapshots')
    /\ UNCHANGED <<duration_seconds, mon_i, sleep_log, exec_seconds>>
    /\ UNCHANGED <<anVars, cmpVars, caVars, pxVars, ccVars, seVars, trVars, fpVars, nhVars, elVars, runVars>>

\* a slip that sleeps twice between two samples
SleepTwice ==
    /\ mon_pc = "sleep"
    /\ sleep_log' = sleep_log \o <<check_interval, check_interval>>
    /\ mon_pc' = "exec"
    /\ UNCHANGED <<duration_seconds, snapshots, check_interval, checks_remaining, mon_i,
                   exec_failures, changes_left, last_obs, mon_result, exec_seconds>>
    /\ UNCHANGED <<anVars, cmpVars, caVars, pxVars, ccVars, seVars, trVars, fpVars, nhVars, elVars, runVars>>

\* line 134
Sleep ==
    /\ mon_pc = "sleep"
    /\ sleep_log' = Append(sleep_log, check_interval)
    /\ mon_pc' = "exec"
    /\ UNCHANGED <<duration_seconds, snapshots, check_interval, checks_remaining, mon_i,
                   exec_failures, changes_left, last_obs, mon_result, exec_seconds>>
    /\ UNCHANGED <<anVars, cmpVars, caVars, pxVars, ccVars, seVars, trVars, fpVars, nhVars, elVars, runVars>>

\* lines 135-136 and, after the last sample, 139-150
TakeSample ==
    /\ mon_pc = "exec"
    /\ snapshots # <<>>
    /\ \E obs \in MonObs : Observe(obs)
    /\ mon_i' = mon_i + 1
    /\ IF mon_i' < checks_remaining
       THEN mon_pc' = "sleep" /\ UNCHANGED mon_result
       ELSE /\ mon_pc' = "done"
            /\ mon_result' = MonitorSuccess("worker-0", duration_seconds, snapshots')
    /\ UNCHANGED <<duration_seconds, check_interval, checks_remaining, sleep_log, exec_seconds>>
    /\ UNCHANGED <<anVars, cmpVars, caVars, pxVars, ccVars, seVars, trVars, fpVars, nhVars, elVars, runVars>>

\* The caller cancels the task while it is suspended in the executor or in
\* asyncio.sleep: CancelledError is no Exception, so neither `except
\* Exception` of the analyzer nor that of the tool catches it.
Cancel ==
    /\ mon_pc \in {"exec", "sleep"}
    /\ mon_pc' = "cancelled"
    /\ mon_result' = [status |-> "raised", exception |-> "CancelledError"]
    /\ UNCHANGED <<duration_seconds, snapshots, check_interval, checks_remaining, mon_i,
                   sleep_log, exec_failures, changes_left, last_obs, exec_seconds>>
    /\ UNCHANGED <<anVars, cmpVars, caVars, pxVars, ccVars, seVars, trVars, fpVars, nhVars, elVars, runVars>>

MonitorReturned ==
    /\ mon_pc \in {"done", "cancelled"}
    /\ mon_pc' = "idle"
    /\ duration_seconds' = 0
    /\ snapshots' = <<>>
    /\ check_interval' = -1
    /\ checks_remaining' = -1
    /\ mon_i' = 0
    /\ sleep_log' = <<>>
    /\ exec_failures' = {}
    /\ changes_left' = 0
    /\ last_obs' = NoEnv
    /\ mon_result' = NoResult
    /\ exec_seconds' = 0
    /\ UNCHANGED <<anVars, cmpVars, caVars, pxVars, ccVars, seVars, trVars, fpVars, nhVars, elVars, runVars>>

MonInit == AnIdle /\ CmpIdle /\ MonIdle /\ CaIdle /\ PxIdle /\ CcIdle /\ SeIdle /\ TrIdle /\ FpIdle /\ NhIdle
    /\ ElIdle /\ RunIdle

MonNext ==
    \/ MonitorRuleChanges
    \/ MonitorOvnRules
    \/ TakeBaseline
    \/ Sleep
    \/ TakeSample
    \/ Cancel
    \/ MonitorReturned

SpecMonitor == MonInit /\ [][MonNext]_vars

-----------------------------------------------------------------------------
(* Change detection and stability on given snapshot lists.                 *)

CaObs ==
    {[snat |-> ExecOk(<<S1>>), lrp |-> ExecOk(<<L1>>)],
     [snat |-> ExecOk(<<S3>>), lrp |-> ExecOk(<<L1>>)],
     [snat |-> ExecOk(<<S1, S2>>), lrp |-> ExecOk(<<L1>>)],
     [snat |-> ExecOk(<<S2, S1>>), lrp |-> ExecOk(<<L1>>)],
     [snat |-> ExecOk(<<S1>>), lrp |-> ExecOk(<<L2>>)],
     [snat |-> ExecOk(<<S1>>), lrp |-> ExecOk(<<L1, L2>>)],
     [snat |-> ExecOk(<<S1, S2>>), lrp |-> ExecOk(<<L1, L2>>)]}

\* one more snapshot is taken, and the list is analysed and assessed as
\* monitor_rule_changes does at lines 139 and 148
AnalyzeSnapshots ==
    /\ Len(ca_snapshots) < MaxSnaps
    /\ \E obs \in CaObs : ca_snapshots' = Append(ca_snapshots, _take_rule_snapshot(obs))
    /\ change_analysis' = _analyze_rule_changes(ca_snapshots')
    /\ stability' = _assess_rule_stability(change_analysis')
    /\ UNCHANGED <<anVars, cmpVars, monVars, pxVars, ccVars, seVars, trVars, fpVars, nhVars, elVars, runVars>>

CaInit == AnIdle /\ CmpIdle /\ MonIdle /\ CaIdle /\ PxIdle /\ CcIdle /\ SeIdle /\ TrIdle /\ FpIdle /\ NhIdle
    /\ ElIdle /\ RunIdle

CaNext == AnalyzeSnapshots

SpecChanges == CaInit /\ [][CaNext]_vars

-----------------------------------------------------------------------------
(* Multi-node comparison.                                                  *)

\* the methods the class OVNRuleAnalyzer defines (lines 21-634)
ClassMethods ==
    {"__init__", "analyze_node_rules", "compare_rules_across_nodes", "monitor_rule_changes",
     "_get_snat_rules", "_get_lrp_rules", "_parse_snat_rule", "_parse_lrp_rule",
     "_get_ovn_database_info", "_get_egressip_context", "_analyze_snat_rules",
     "_analyze_lrp_rules", "_check_rule_consistency", "_validate_rules_against_egressips",
     "_generate_recommendations", "_take_rule_snapshot", "_analyze_rule_changes",
     "_assess_rule_stability"}

\* self.<name>(arg): looking up a name the class does not define raises
\* AttributeError.  What such a method would return is not in the source; the
\* argument stands for it.
CallMethod(name, arg) ==
    IF name \in ClassMethods THEN [raised |-> FALSE, value |-> arg]
    ELSE [raised |-> TRUE, value |-> arg]

\* lines 88-115, once the loop over the nodes has ended
CompareResult(names, analyses) ==
    LET counts == CallMethod("_compare_rule_counts", analyses)
        content == CallMethod("_compare_rule_content", analyses)
        incons == CallMethod("_identify_inconsistencies", <<counts.value, content.value>>)
        recs == CallMethod("_generate_multi_node_recommendations", incons.value)
    IN  IF counts.raised \/ content.raised \/ incons.raised \/ recs.raised
        THEN [status |-> "error", error |-> "AttributeError", nodes_analyzed |-> names]
        ELSE [status |-> "success",
              nodes_analyzed |-> names,
              rule_count_comparison |-> counts.value,
              rule_content_comparison |-> content.value,
              inconsistencies |-> incons.value,
              recommendations |-> recs.value]

CmpEnvs ==
    [snat : {ExecOk(<<S1>>), ExecRaise},
     lrp : {ExecOk(<<L1>>), ExecFail},
     eip : {EipOk(EipItems({"10.0.0.1"})), EipFail},
     db : {TRUE}]

\* d[k] = v
DictSet(d, k, v) == [x \in DOMAIN d \cup {k} |-> IF x = k THEN v ELSE d[x]]

\* lines 81-84 and, for an empty list of nodes, 88-115
CompareRulesAcrossNodes ==
    /\ cmp_pc = "idle"
    /\ \E names \in SeqsUpTo(Nodes, MaxNodes) :
           /\ node_names' = names
           /\ IF names = <<>>
              THEN cmp_pc' = "done" /\ comparison' = CompareResult(names, <<>>)
              ELSE cmp_pc' = "loop" /\ UNCHANGED comparison
    /\ UNCHANGED <<node_analyses, cmp_i>>
    /\ UNCHANGED <<anVars, monVars, caVars, pxVars, ccVars, seVars, trVars, fpVars, nhVars, elVars, runVars>>

\* line 86 for the next node and, after the last node, 88-115
CompareAnalyzeNode ==
    /\ cmp_pc = "loop"
    /\ \E env \in CmpEnvs :
           node_analyses' = DictSet(node_analyses, node_names[cmp_i + 1],
                                    analyze_node_rules(node_names[cmp_i + 1], env))
    /\ cmp_i' = cmp_i + 1
    /\ IF cmp_i' < Len(node_names)
       THEN cmp_pc' = "loop" /\ UNCHANGED comparison
       ELSE cmp_pc' = "done" /\ comparison' = CompareResult(node_names, node_analyses')
    /\ UNCHANGED node_names
    /\ UNCHANGED <<anVars, monVars, caVars, pxVars, ccVars, seVars, trVars, fpVars, nhVars, elVars, runVars>>

CompareReturned ==
    /\ cmp_pc = "done"
    /\ cmp_pc' = "idle"
    /\ node_names' = <<>>
    /\ node_analyses' = <<>>
    /\ cmp_i' = 0
    /\ comparison' = NoResult
    /\ UNCHANGED <<anVars, monVars, caVars, pxVars, ccVars, seVars, trVars, fpVars, nhVars, elVars, runVars>>

CmpInit == AnIdle /\ CmpIdle /\ MonIdle /\ CaIdle /\ PxIdle /\ CcIdle /\ SeIdle /\ TrIdle /\ FpIdle /\ NhIdle
    /\ ElIdle /\ RunIdle

CmpNext == CompareRulesAcrossNodes \/ CompareAnalyzeNode \/ CompareReturned

SpecCompare == CmpInit /\ [][CmpNext]_vars

-----------------------------------------------------------------------------
(* Rule extraction on given listings: the calls of analyze_node_rules      *)
(* (lines 35-41) that list, parse and summarise the rules of one kind.     *)

MaxParserLines == 3   \* lines of one listing given to rule extraction

ParserSnatLines == SnatLines \cup {S6, S7, <<>>}

ParserLrpLines == LrpLines \cup {L6, L7, L8, <<"">>}

ParserAnswers(lines) ==
    {ExecRaise, ExecFail} \cup {ExecOk(text) : text \in SeqsUpTo(lines, MaxParserLines)}

GetSnatRules ==
    /\ px_pc = "idle"
    /\ \E answer \in ParserAnswers(ParserSnatLines) :
           /\ px_answer' = answer
           /\ px_rules' = _get_snat_rules(answer)
    /\ px_summary' = _analyze_snat_rules(px_rules')
    /\ px_pc' = "snat"
    /\ UNCHANGED <<anVars, cmpVars, monVars, caVars, ccVars, seVars, trVars, fpVars, nhVars, elVars, runVars>>

GetLrpRules ==
    /\ px_pc = "idle"
    /\ \E answer \in ParserAnswers(ParserLrpLines) :
           /\ px_answer' = answer
           /\ px_rules' = _get_lrp_rules(answer)
    /\ px_summary' = _analyze_lrp_rules(px_rules')
    /\ px_pc' = "lrp"
    /\ UNCHANGED <<anVars, cmpVars, monVars, caVars, ccVars, seVars, trVars, fpVars, nhVars, elVars, runVars>>

RulesReturned ==
    /\ px_pc # "idle"
    /\ px_pc' = "idle"
    /\ px_answer' = ExecFail
    /\ px_rules' = <<>>
    /\ px_summary' = NoResult
    /\ UNCHANGED <<anVars, cmpVars, monVars, caVars, ccVars, seVars, trVars, fpVars, nhVars, elVars, runVars>>

PxInit == AnIdle /\ CmpIdle /\ MonIdle /\ CaIdle /\ PxIdle /\ CcIdle /\ SeIdle /\ TrIdle /\ FpIdle /\ NhIdle
    /\ ElIdle /\ RunIdle

PxNext == GetSnatRules \/ GetLrpRules \/ RulesReturned

SpecParser == PxInit /\ [][PxNext]_vars

-----------------------------------------------------------------------------
(* Consistency check on given listings: the calls of analyze_node_rules    *)
(* (lines 35, 36 and 42) that list the rules and correlate them.           *)

CcSnatPool == <<S1, S2, S3, S4, S8, S9, S10>>

CcLrpPool == <<L1, L2, L4, L9, L10, L11, L12>>

\* the lines of pool at the places in keep, in the order of pool
RECURSIVE Pick(_, _, _)
Pick(pool, keep, from) ==
    IF from > Len(pool) THEN <<>>
    ELSE (IF from \in keep THEN <<pool[from]>> ELSE <<>>) \o Pick(pool, keep, from + 1)

Listings(pool) ==
    {ExecFail} \cup {ExecOk(Pick(pool, keep, 1)) : keep \in SUBSET (1..Len(pool))}

CheckRuleConsistency ==
    /\ cc_pc = "idle"
    /\ \E snat \in Listings(CcSnatPool), lrp \in Listings(CcLrpPool) :
           /\ cc_answers' = [snat |-> snat, lrp |-> lrp]
           /\ consistency' = _check_rule_consistency(_get_snat_rules(snat), _get_lrp_rules(lrp))
    /\ cc_pc' = "done"
    /\ UNCHANGED <<anVars, cmpVars, monVars, caVars, pxVars, seVars, trVars, fpVars, nhVars, elVars, runVars>>

ConsistencyReturned ==
    /\ cc_pc = "done"
    /\ cc_pc' = "idle"
    /\ cc_answers' = [snat |-> ExecFail, lrp |-> ExecFail]
    /\ consistency' = NoResult
    /\ UNCHANGED <<anVars, cmpVars, monVars, caVars, pxVars, seVars, trVars, fpVars, nhVars, elVars, runVars>>

CcInit == AnIdle /\ CmpIdle /\ MonIdle /\ CaIdle /\ PxIdle /\ CcIdle /\ SeIdle /\ TrIdle /\ FpIdle /\ NhIdle
    /\ ElIdle /\ RunIdle

CcNext == CheckRuleConsistency \/ ConsistencyReturned

SpecConsistency == CcInit /\ [][CcNext]_vars

-----------------------------------------------------------------------------
(* Concurrent monitoring sessions: one call of the tool monitor_ovn_rules  *)
(* per node, all on the one analyzer of the server, interleaved by the     *)
(* event loop wherever a call awaits the executor or asyncio.sleep.        *)

SessionMinutes == {0, 1}

\* a slip that keeps the snapshot list on the analyzer, which the server
\* shares among the calls
SharedSnapshotList(node_name) == CHOOSE n \in Nodes : n = "worker-0"

\* the list a call of monitor_rule_changes appends to: `snapshots = []` is a
\* local of the call (line 122)
SnapshotListOf(node_name) == node_name

\* what ovn-nbctl lists for the node, before and after its rules change
NodeSnat(node_name, changed) ==
    IF node_name = "worker-0"
    THEN ExecOk(IF changed THEN <<S1, S2>> ELSE <<S1>>)
    ELSE ExecOk(IF changed THEN <<>> ELSE <<S3>>)

NodeLrp(node_name, changed) ==
    IF node_name = "worker-0"
    THEN ExecOk(IF changed THEN <<L1, L2>> ELSE <<L1>>)
    ELSE ExecOk(<<L5>>)

MonitorOvnRulesFor(node_name) ==
    /\ se_pc[node_name] = "idle"
    /\ \E m \in SessionMinutes : se_minutes' = [se_minutes EXCEPT ![node_name] = m]
    /\ se_snapshots' = [se_snapshots EXCEPT ![SnapshotListOf(node_name)] = <<>>]
    /\ se_pc' = [se_pc EXCEPT ![node_name] = "snat"]
    /\ UNCHANGED <<se_snat, se_checks, se_i, se_result, node_changed, exec_given>>
    /\ UNCHANGED <<anVars, cmpVars, monVars, caVars, pxVars, ccVars, trVars, fpVars, nhVars, elVars, runVars>>

\* _take_rule_snapshot, line 556: the SNAT listing of the node arrives
ListSnat(node_name) ==
    /\ se_pc[node_name] = "snat"
    /\ LET answer == NodeSnat(node_name, node_changed[node_name]) IN
       /\ se_snat' = [se_snat EXCEPT ![node_name] = answer]
       /\ exec_given' = [exec_given EXCEPT ![node_name] = Append(@, answer)]
    /\ se_pc' = [se_pc EXCEPT ![node_name] = "lrp"]
    /\ UNCHANGED <<se_minutes, se_snapshots, se_checks, se_i, se_result, node_changed>>
    /\ UNCHANGED <<anVars, cmpVars, monVars, caVars, pxVars, ccVars, trVars, fpVars, nhVars, elVars, runVars>>

\* _take_rule_snapshot, lines 557-565: the LRP listing arrives; the snapshot
\* is appended (lines 127, 137) and the call goes on to its next await or
\* to its return (lines 130-150)
ListLrp(node_name) ==
    /\ se_pc[node_name] = "lrp"
    /\ LET answer == NodeLrp(node_name, node_changed[node_name])
           snapshot == _take_rule_snapshot([snat |-> se_snat[node_name], lrp |-> answer])
           list == SnapshotListOf(node_name)
           d == se_minutes[node_name] * 60
           baseline == se_checks[node_name] = -1
           checks == IF ~baseline THEN se_checks[node_name]
                     ELSE IF CheckInterval(d) = 0 THEN 0
                     ELSE d \div CheckInterval(d)
           i == IF baseline THEN 0 ELSE se_i[node_name] + 1
       IN  /\ exec_given' = [exec_given EXCEPT ![node_name] = Append(@, answer)]
           /\ se_snapshots' = [se_snapshots EXCEPT ![list] = Append(@, snapshot)]
           /\ se_checks' = [se_checks EXCEPT ![node_name] = checks]
           /\ se_i' = [se_i EXCEPT ![node_name] = i]
           /\ IF baseline /\ CheckInterval(d) = 0
              THEN /\ se_pc' = [se_pc EXCEPT ![node_name] = "done"]
                   /\ se_result' = [se_result EXCEPT ![node_name] =
                                        MonitorError(node_name, "ZeroDivisionError")]
              ELSE IF i < checks
              THEN /\ se_pc' = [se_pc EXCEPT ![node_name] = "sleep"]
                   /\ UNCHANGED se_result
              ELSE /\ se_pc' = [se_pc EXCEPT ![node_name] = "done"]
                   /\ se_result' = [se_result EXCEPT ![node_name] =
                                        MonitorSuccess(node_name, d, se_snapshots'[list])]
    /\ UNCHANGED <<se_minutes, se_snat, node_changed>>
    /\ UNCHANGED <<anVars, cmpVars, monVars, caVars, pxVars, ccVars, trVars, fpVars, nhVars, elVars, runVars>>

\* line 135: asyncio.sleep(check_interval) is over
SessionSleep(node_name) ==
    /\ se_pc[node_name] = "sleep"
    /\ se_pc' = [se_pc EXCEPT ![node_name] = "snat"]
    /\ UNCHANGED <<se_minutes, se_snapshots, se_snat, se_checks, se_i, se_result,
                   node_changed, exec_given>>
    /\ UNCHANGED <<anVars, cmpVars, monVars, caVars, pxVars, ccVars, trVars, fpVars, nhVars, elVars, runVars>>

\* the cluster changes the rules of a node
RulesChange(node_name) ==
    /\ ~node_changed[node_name]
    /\ node_changed' = [node_changed EXCEPT ![node_name] = TRUE]
    /\ UNCHANGED <<se_pc, se_minutes, se_snapshots, se_snat, se_checks, se_i, se_result,
                   exec_given>>
    /\ UNCHANGED <<anVars, cmpVars, monVars, caVars, pxVars, ccVars, trVars, fpVars, nhVars, elVars, runVars>>

SeInit == AnIdle /\ CmpIdle /\ MonIdle /\ CaIdle /\ PxIdle /\ CcIdle /\ SeIdle /\ TrIdle /\ FpIdle /\ NhIdle
    /\ ElIdle /\ RunIdle

SeNext ==
    \E node_name \in Nodes :
        \/ MonitorOvnRulesFor(node_name)
        \/ ListSnat(node_name)
        \/ ListLrp(node_name)
        \/ SessionSleep(node_name)
        \/ RulesChange(node_name)

SpecSessions == SeInit /\ [][SeNext]_vars

-----------------------------------------------------------------------------
(* Trend analysis of the metrics collector: get_trend_analysis ->          *)
(* _calculate_trends -> _simple_trend.  A number is the quotient of two    *)
(* small integers, so the averages and the percent change are exact.       *)

MaxTrendRows == 3     \* daily aggregates fetched by one get_trend_analysis
MaxTrendValues == 4   \* values of one series handed to _simple_trend

\* SQL NULL / Python None in a column of a fetched row
None == [none |-> TRUE]

FAdd(a, b) ==
    IF a.den = b.den THEN Float(a.num + b.num, a.den)
    ELSE Float(a.num * b.den + b.num * a.den, a.den * b.den)

FSub(a, b) == FAdd(a, Float(-b.num, b.den))

\* a / n and a * n for an integer n > 0
FDivInt(a, n) == Float(a.num, a.den * n)

FMulInt(a, n) == Float(a.num * n, a.den)

\* a / b for b > 0
FDiv(a, b) == Float(a.num * b.den, a.den * b.num)

\* a > b (all denominators are positive)
FGt(a, b) == a.num * b.den > b.num * a.den

RECURSIVE FSum(_)
FSum(values) ==
    IF values = <<>> THEN Float(0, 1) ELSE FAdd(Head(values), FSum(Tail(values)))

SimpleTrendUnguarded(values) ==
    LET mid_point == Len(values) \div 2
        first_half_avg ==
            IF mid_point > 0 THEN FDivInt(FSum(SubSeq(values, 1, mid_point)), mid_point)
            ELSE Float(0, 1)
        second_half_avg ==
            IF values = <<>> THEN Float(0, 1)
            ELSE FDivInt(FSum(SubSeq(values, mid_point + 1, Len(values))),
                         Len(values) - mid_point)
        diff_percent ==
            IF FGt(first_half_avg, Float(0, 1))
            THEN FMulInt(FDiv(FSub(second_half_avg, first_half_avg), first_half_avg), 100)
            ELSE Float(0, 1)
    IN  IF FGt(diff_percent, Float(10, 1)) THEN "increasing"
        ELSE IF FGt(Float(-10, 1), diff_percent) THEN "decreasing"
        ELSE "stable"

\* lines 446-463
_simple_trend(values) ==
    IF Len(values) < 2 THEN "insufficient_data"
    ELSE
    LET mid_point == Len(values) \div 2
        first_half_avg ==
            IF mid_point > 0 THEN FDivInt(FSum(SubSeq(values, 1, mid_point)), mid_point)
            ELSE Float(0, 1)
        second_half_avg ==
            FDivInt(FSum(SubSeq(values, mid_point + 1, Len(values))),
                    Len(values) - mid_point)
        \* line 455: the percent change is computed `if first_half_avg > 0`
        diff_percent ==
            IF FGt(first_half_avg, Float(0, 1))
            THEN FMulInt(FDiv(FSub(second_half_avg, first_half_avg), first_half_avg), 100)
            ELSE Float(0, 1)
    IN  IF FGt(diff_percent, Float(10, 1)) THEN "increasing"
        ELSE IF FGt(Float(-10, 1), diff_percent) THEN "decreasing"
        ELSE "stable"

\* [d.get(column, 0) for d in data if d.get(column) is not None]
RECURSIVE Column(_, _)
Column(data, column) ==
    IF data = <<>> THEN <<>>
    ELSE (IF Head(data)[column] = None THEN <<>> ELSE <<Head(data)[column]>>)
         \o Column(Tail(data), column)

\* lines 423-427: passed / total of the rows with total > 0
RECURSIVE PassRates(_)
PassRates(data) ==
    IF data = <<>> THEN <<>>
    ELSE (IF Head(data).total_tests > 0
          THEN <<Float(Head(data).passed_tests, Head(data).total_tests)>>
          ELSE <<>>)
         \o PassRates(Tail(data))

TrendOrNoData(series) == IF series # <<>> THEN _simple_trend(series) ELSE "no_data"

LastOrZero(series) == IF series # <<>> THEN series[Len(series)] ELSE Float(0, 1)

\* lines 392-444
_calculate_trends(data, metric_type) ==
    IF Len(data) < 2
    THEN [trend |-> "insufficient_data", details |-> "Need at least 2 data points"]
    ELSE IF metric_type = "egressip_status"
    THEN LET egressip_counts == Column(data, "unique_egressips")
             pod_counts == Column(data, "avg_pod_count")
         IN  [egressip_trend |-> _simple_trend(egressip_counts),
              pod_count_trend |-> TrendOrNoData(pod_counts),
              latest_values |-> [unique_egressips |-> LastOrZero(egressip_counts),
                                 avg_pod_count |-> LastOrZero(pod_counts)]]
    ELSE IF metric_type = "ovn_rules"
    THEN [snat_rules_trend |-> TrendOrNoData(Column(data, "avg_snat_rules")),
          lrp_rules_trend |-> TrendOrNoData(Column(data, "avg_lrp_rules")),
          consistency_trend |-> TrendOrNoData(Column(data, "avg_consistency"))]
    ELSE IF metric_type = "performance_tests"
    THEN [execution_time_trend |-> TrendOrNoData(Column(data, "avg_execution_time")),
          pass_rate_trend |-> TrendOrNoData(PassRates(data))]
    ELSE [trend |-> "unknown"]

MetricTypes == {"egressip_status", "ovn_rules", "performance_tests"}

\* The rows a query can fetch: one per day, COUNT columns never NULL, an AVG
\* column NULL when every record of the day holds NULL in it.
TrendRows(metric_type) ==
    IF metric_type = "egressip_status"
    THEN [unique_egressips : {Float(1, 1), Float(2, 1)},
          avg_pod_count : {None, Float(10, 1), Float(20, 1)}]
    ELSE IF metric_type = "ovn_rules"
    THEN [avg_snat_rules : {None, Float(10, 1), Float(20, 1)},
          avg_lrp_rules : {Float(10, 1)},
          avg_consistency : {None, Float(1, 2)}]
    ELSE IF metric_type = "performance_tests"
    THEN {[total_tests |-> c[1], passed_tests |-> c[2], avg_execution_time |-> t] :
              c \in {<<1, 0>>, <<1, 1>>, <<2, 1>>},
              t \in {None, Float(10, 1), Float(20, 1)}}
    ELSE {}

\* The values of a series.  avg_execution_time averages execution_time, the
\* difference of two time.time() readings (corenet_6498_runner.py line 331)
\* or whatever the caller of store_performance_test_result hands over
\* (line 219), so a series is not bound to be positive.
TrendValues ==
    {Float(0, 1), Float(9, 1), Float(10, 1), Float(21, 2), Float(11, 1), Float(20, 1),
     Float(-10, 1), Float(-20, 1)}

\* lines 315-390
GetTrendAnalysis ==
    /\ tr_pc = "idle"
    /\ tr_pc' = "trend"
    /\ \E metric_type \in MetricTypes \cup {"unknown_type"} :
           /\ tr_metric_type' = metric_type
           /\ IF metric_type \notin MetricTypes
              THEN /\ trend_data' = <<>>
                   /\ trend_result' = [status |-> "error", error |-> "Unknown metric type"]
              ELSE \E rows \in SeqsUpTo(TrendRows(metric_type), MaxTrendRows) :
                       /\ trend_data' = rows
                       /\ trend_result' =
                              [status |-> "success",
                               metric_type |-> metric_type,
                               data_points |-> Len(rows),
                               trend_data |-> rows,
                               trend_analysis |-> _calculate_trends(rows, metric_type)]
    /\ UNCHANGED <<tr_values, tr_trend>>
    /\ UNCHANGED <<anVars, cmpVars, monVars, caVars, pxVars, ccVars, seVars, fpVars, nhVars, elVars, runVars>>

\* lines 446-463 on a series of its own
SimpleTrend ==
    /\ tr_pc = "idle"
    /\ tr_pc' = "simple"
    /\ \E values \in SeqsUpTo(TrendValues, MaxTrendValues) :
           /\ tr_values' = values
           /\ tr_trend' = _simple_trend(values)
    /\ UNCHANGED <<tr_metric_type, trend_data, trend_result>>
    /\ UNCHANGED <<anVars, cmpVars, monVars, caVars, pxVars, ccVars, seVars, fpVars, nhVars, elVars, runVars>>

TrendReturned ==
    /\ tr_pc # "idle"
    /\ tr_pc' = "idle"
    /\ tr_metric_type' = ""
    /\ trend_data' = <<>>
    /\ trend_result' = NoResult
    /\ tr_values' = <<>>
    /\ tr_trend' = ""
    /\ UNCHANGED <<anVars, cmpVars, monVars, caVars, pxVars, ccVars, seVars, fpVars, nhVars, elVars, runVars>>

TrInit == AnIdle /\ CmpIdle /\ MonIdle /\ CaIdle /\ PxIdle /\ CcIdle /\ SeIdle /\ TrIdle /\ FpIdle /\ NhIdle
    /\ ElIdle /\ RunIdle

TrNext == GetTrendAnalysis \/ SimpleTrend \/ TrendReturned

SpecTrends == TrInit /\ [][TrNext]_vars

-----------------------------------------------------------------------------
(* Fingerprints of two adjacent samples: the snapshots                     *)
(* monitor_rule_changes takes of two listings and the comparison           *)
(* _analyze_rule_changes makes of the pair.                                *)

MaxFpLines == 2   \* lines of one SNAT listing given to a sample

\* what the executor may list at a sample: the same rules in any order, with
\* repetitions, and different rules
FpObs ==
    {[snat |-> ExecOk(s), lrp |-> ExecOk(l)] :
         s \in SeqsUpTo({S1, S2, S3}, MaxFpLines),
         l \in {<<L1, L2>>, <<L2, L1>>, <<L1>>}}

\* lines 124-139 for two samples: both snapshots are taken and compared
TakeTwoSnapshots ==
    /\ fp_pc = "idle"
    /\ fp_pc' = "done"
    /\ \E prev \in FpObs, curr \in FpObs :
           /\ fp_obs' = <<prev, curr>>
           /\ fp_snapshots' = <<_take_rule_snapshot(prev), _take_rule_snapshot(curr)>>
    /\ fp_changes' = _analyze_rule_changes(fp_snapshots')
    /\ UNCHANGED <<anVars, cmpVars, monVars, caVars, pxVars, ccVars, seVars, trVars, nhVars, elVars, runVars>>

FingerprintsReturned ==
    /\ fp_pc = "done"
    /\ fp_pc' = "idle"
    /\ fp_obs' = <<>>
    /\ fp_snapshots' = <<>>
    /\ fp_changes' = NoResult
    /\ UNCHANGED <<anVars, cmpVars, monVars, caVars, pxVars, ccVars, seVars, trVars, nhVars, elVars, runVars>>

FpInit == AnIdle /\ CmpIdle /\ MonIdle /\ CaIdle /\ PxIdle /\ CcIdle /\ SeIdle /\ TrIdle /\ FpIdle /\ NhIdle
    /\ ElIdle /\ RunIdle

FpNext == TakeTwoSnapshots \/ FingerprintsReturned

SpecFingerprints == FpInit /\ [][FpNext]_vars

-----------------------------------------------------------------------------
(* Node health tool: get_ocp_node_health (src/mcp/mcp_tools/node_health.py) *)
(* queries the collector once per node group and combines the answers.     *)

\* line 166: the node groups, in the order they are queried
NodeGroupOrder == <<"controlplane", "infra", "workload", "worker">>

\* a successful answer of collect_all_metrics with the given P99 latencies
GroupSuccess(p99s) ==
    [status |-> "success",
     total_nodes |-> Cardinality(DOMAIN p99s),
     metrics |-> [p99_kubelet_pleg_relist_duration |->
                      [nodes |-> [n \in DOMAIN p99s |-> [p99 |-> p99s[n], unit |-> "second"]]]]]

\* What one call of collect_all_metrics may answer: a successful result, a
\* result with an error status for a group without nodes, a result that is
\* not successful and names no error, or an exception.
CollectorAnswers ==
    {[raised |-> FALSE, result |-> GroupSuccess("node-0" :> Float(1, 20))],
     [raised |-> FALSE,
      result |-> GroupSuccess("node-0" :> Float(2, 1) @@ "node-1" :> Float(1, 2))],
     [raised |-> FALSE, result |-> [status |-> "error", error |-> "No nodes found"]],
     [raised |-> FALSE, result |-> [status |-> "failed"]],
     [raised |-> TRUE, message |-> "connection refused"]}

\* how the tool finds its collector: there already, or lazily initialised
\* (lines 127-158), which may fail at the auth manager or at the collector
CollectorSetups == {"ready", "auth_failed", "collector_failed"}

\* the conditions of lines 251, 267 and 283 on the P99 latency of a node
InLatencyBand(p99, band) ==
    CASE band = "critical" -> FGt(p99, Float(1, 1))
      [] band = "warning" -> FGt(p99, Float(1, 10)) /\ ~FGt(p99, Float(1, 1))
      [] band = "healthy" -> ~FGt(p99, Float(1, 10))

\* the loops of lines 243-252, 259-268 and 275-284: the nodes of the
\* successful groups, among the groups gs, whose P99 latency lies in the band
RECURSIVE CountNodes(_, _, _)
CountNodes(groups, gs, band) ==
    IF gs = {} THEN 0
    ELSE LET g == CHOOSE x \in gs : TRUE IN
         (IF groups[g].status = "success"
          THEN LET nodes == groups[g].metrics.p99_kubelet_pleg_relist_duration.nodes
               IN  Cardinality({n \in DOMAIN nodes : InLatencyBand(nodes[n].p99, band)})
          ELSE 0) + CountNodes(groups, gs \ {g}, band)

\* lines 240-253
_count_critical_nodes(groups) == CountNodes(groups, DOMAIN groups, "critical")

\* lines 256-269
_count_warning_nodes(groups) == CountNodes(groups, DOMAIN groups, "warning")

\* lines 272-285
_count_healthy_nodes(groups) == CountNodes(groups, DOMAIN groups, "healthy")

\* lines 120-163: the call starts; a failed lazy initialisation returns at once
GetOcpNodeHealth ==
    /\ nh_pc = "idle"
    /\ \E setup \in CollectorSetups :
           IF setup = "ready"
           THEN /\ nh_pc' = "loop"
                /\ nh_response' = NoResult
           ELSE /\ nh_pc' = "done"
                /\ nh_response' =
                       [status |-> "error",
                        error |-> IF setup = "auth_failed"
                                  THEN "Failed to initialize OpenShift auth for node health"
                                  ELSE "Failed to initialize nodeHealthCollector"]
    /\ UNCHANGED <<nh_i, nh_answers, nh_calls, node_groups, nh_errors>>
    /\ UNCHANGED <<anVars, cmpVars, monVars, caVars, pxVars, ccVars, seVars, trVars, fpVars, elVars, runVars>>

\* a slip that lets the exception of one group end the loop (no inner try)
QueryNodeGroupUnguarded ==
    /\ nh_pc = "loop"
    /\ nh_i < Len(NodeGroupOrder)
    /\ LET node_group == NodeGroupOrder[nh_i + 1] IN
       \E answer \in CollectorAnswers :
           /\ nh_answers' = Append(nh_answers, answer)
           /\ nh_calls' = Append(nh_calls,
                  IF node_group = "worker"
                  THEN [node_group |-> node_group, top_n_nodes |-> 3]
                  ELSE [node_group |-> node_group])
           /\ nh_i' = nh_i + 1
           /\ IF answer.raised
              THEN /\ nh_pc' = "done"
                   /\ nh_response' = [status |-> "error", error |-> answer.message]
                   /\ UNCHANGED <<node_groups, nh_errors>>
              ELSE /\ UNCHANGED <<nh_pc, nh_response>>
                   /\ IF answer.result.status = "success"
                      THEN /\ node_groups' = node_groups @@ (node_group :> answer.result)
                           /\ UNCHANGED nh_errors
                      ELSE LET error_msg == IF Has(answer.result, "error")
                                            THEN answer.result.error ELSE "Unknown error"
                           IN  /\ node_groups' = node_groups @@
                                      (node_group :> [status |-> "error", error |-> error_msg])
                               /\ nh_errors' = Append(nh_errors, <<node_group, error_msg>>)
    /\ UNCHANGED <<anVars, cmpVars, monVars, caVars, pxVars, ccVars, seVars, trVars, fpVars, elVars, runVars>>

\* lines 166-200: one iteration of the for loop, up to its await and beyond
QueryNodeGroup ==
    /\ nh_pc = "loop"
    /\ nh_i < Len(NodeGroupOrder)
    /\ LET node_group == NodeGroupOrder[nh_i + 1] IN
       \E answer \in CollectorAnswers :
           /\ nh_answers' = Append(nh_answers, answer)
           /\ nh_calls' = Append(nh_calls,
                  IF node_group = "worker"
                  THEN [node_group |-> node_group, top_n_nodes |-> 3]
                  ELSE [node_group |-> node_group])
           /\ nh_i' = nh_i + 1
           /\ IF ~answer.raised /\ answer.result.status = "success"
              THEN /\ node_groups' = node_groups @@ (node_group :> answer.result)
                   /\ UNCHANGED nh_errors
              ELSE LET error_msg ==
                           IF answer.raised THEN answer.message
                           ELSE IF Has(answer.result, "error") THEN answer.result.error
                           ELSE "Unknown error"
                   IN  /\ node_groups' = node_groups @@
                              (node_group :> [status |-> "error", error |-> error_msg])
                       /\ nh_errors' = Append(nh_errors, <<node_group, error_msg>>)
    /\ UNCHANGED <<nh_pc, nh_response>>
    /\ UNCHANGED <<anVars, cmpVars, monVars, caVars, pxVars, ccVars, seVars, trVars, fpVars, elVars, runVars>>

\* lines 202-237: the loop is over, the combined result is built and returned
NodeHealthCombined ==
    /\ nh_pc = "loop"
    /\ nh_i = Len(NodeGroupOrder)
    /\ nh_pc' = "done"
    /\ LET successful_groups == {g \in DOMAIN node_groups : node_groups[g].status = "success"}
           overall_status == IF successful_groups = {} THEN "error"
                             ELSE IF nh_errors # <<>> THEN "partial_success"
                             ELSE "success"
           health_summary ==
               [total_node_groups |-> Cardinality(DOMAIN node_groups),
                successful_groups |-> Cardinality(successful_groups),
                failed_groups |-> Len(nh_errors),
                critical_nodes |-> _count_critical_nodes(node_groups),
                warning_nodes |-> _count_warning_nodes(node_groups),
                healthy_nodes |-> _count_healthy_nodes(node_groups)]
           combined_result ==
               [status |-> overall_status,
                category |-> "node_health",
                node_groups |-> node_groups,
                health_summary |-> health_summary]
               @@ (IF nh_errors # <<>> THEN [errors |-> nh_errors] ELSE <<>>)
               @@ (IF overall_status = "error"
                   THEN [error |-> "Failed to collect health metrics for any node group"]
                   ELSE <<>>)
       IN  nh_response' =
               [status |-> overall_status, data |-> combined_result]
               @@ (IF overall_status = "error"
                   THEN [error |-> "Failed to collect health metrics for any node group"]
                   ELSE <<>>)
    /\ UNCHANGED <<nh_i, nh_answers, nh_calls, node_groups, nh_errors>>
    /\ UNCHANGED <<anVars, cmpVars, monVars, caVars, pxVars, ccVars, seVars, trVars, fpVars, elVars, runVars>>

NodeHealthReturned ==
    /\ nh_pc = "done"
    /\ nh_pc' = "idle"
    /\ nh_i' = 0
    /\ nh_answers' = <<>>
    /\ nh_calls' = <<>>
    /\ node_groups' = <<>>
    /\ nh_errors' = <<>>
    /\ nh_response' = NoResult
    /\ UNCHANGED <<anVars, cmpVars, monVars, caVars, pxVars, ccVars, seVars, trVars, fpVars, elVars, runVars>>

NhInit ==
    AnIdle /\ CmpIdle /\ MonIdle /\ CaIdle /\ PxIdle /\ CcIdle /\ SeIdle /\ TrIdle /\ FpIdle
    /\ NhIdle /\ ElIdle /\ RunIdle

NhNext == GetOcpNodeHealth \/ QueryNodeGroup \/ NodeHealthCombined \/ NodeHealthReturned

SpecNodeHealth == NhInit /\ [][NhNext]_vars

-----------------------------------------------------------------------------
(* ELT processor: extract_test_results and extract_metrics_data            *)
(* (src/elt/egress/egress_analyzer_elt_processor.py).  Neither coroutine   *)
(* awaits anything, so the event loop runs each call from its first line   *)
(* to its return or raise without another call in between.                 *)

MaxExtractCalls == 3   \* extract_* calls on one storage
MaxTicks == 3          \* how far the clock advances

\* strftime('%Y%m%d_%H%M%S') drops what lies below the second: a second of
\* the clock holds this many ticks
TicksPerSecond == 2

SourceTypes == {"cornet_6498", "metrics_collector"}

\* lines 101 and 146: f"{source_type}_{utcnow().strftime('%Y%m%d_%H%M%S')}"
ExtractionId(source_type, now) == <<source_type, now \div TicksPerSecond>>

\* a slip that declares extraction_id without UNIQUE
InsertWithoutUnique(rows, row) == [raised |-> FALSE, rows |-> Append(rows, row)]

\* lines 112-124 on the schema of lines 37-46: INSERT INTO elt_extractions
\* and commit; extraction_id is UNIQUE, so a second row with a stored ID
\* raises IntegrityError and the connection's context manager rolls back
InsertExtraction(rows, row) ==
    IF \E k \in 1..Len(rows) : rows[k].extraction_id = row.extraction_id
    THEN [raised |-> TRUE, rows |-> rows]
    ELSE [raised |-> FALSE, rows |-> Append(rows, row)]

\* lines 89-132 and 134-176: one call, from the generated ID to the return
\* or the re-raised exception; json.dumps raises on data it cannot serialise
Extract(function, source_type, data, serialisable) ==
    /\ Len(elt_log) < MaxExtractCalls
    /\ LET extraction_id == ExtractionId(source_type, elt_now)
           row == [extraction_id |-> extraction_id, timestamp |-> elt_now,
                   source_type |-> source_type, data_json |-> data]
           inserted == IF serialisable THEN InsertExtraction(elt_extractions, row)
                       ELSE [raised |-> TRUE, rows |-> elt_extractions]
       IN  /\ elt_extractions' = inserted.rows
           /\ elt_log' = Append(elt_log,
                  [function |-> function, data |-> data, generated_id |-> extraction_id,
                   stored_before |-> elt_extractions,
                   stored_after |-> inserted.rows,
                   outcome |-> IF inserted.raised THEN "raised" ELSE "returned"]
                  @@ (IF inserted.raised THEN <<>> ELSE [returned_id |-> extraction_id]))
    /\ UNCHANGED elt_now
    /\ UNCHANGED <<anVars, cmpVars, monVars, caVars, pxVars, ccVars, seVars, trVars, fpVars, nhVars, runVars>>

\* lines 89-132
ExtractTestResults ==
    \E source_type \in SourceTypes, serialisable \in BOOLEAN :
        Extract("extract_test_results", source_type,
                [test_results |-> Len(elt_log) + 1], serialisable)

\* lines 134-176
ExtractMetricsData ==
    \E source_type \in SourceTypes, serialisable \in BOOLEAN :
        Extract("extract_metrics_data", source_type,
                [metrics_data |-> Len(elt_log) + 1], serialisable)

\* time passes between two calls
ClockTick ==
    /\ elt_now < MaxTicks
    /\ elt_now' = elt_now + 1
    /\ UNCHANGED <<elt_extractions, elt_log>>
    /\ UNCHANGED <<anVars, cmpVars, monVars, caVars, pxVars, ccVars, seVars, trVars, fpVars, nhVars, runVars>>

ElInit ==
    AnIdle /\ CmpIdle /\ MonIdle /\ CaIdle /\ PxIdle /\ CcIdle /\ SeIdle /\ TrIdle /\ FpIdle
    /\ NhIdle /\ ElIdle /\ RunIdle

ElNext == ExtractTestResults \/ ExtractMetricsData \/ ClockTick

SpecExtractions == ElInit /\ [][ElNext]_vars

-----------------------------------------------------------------------------
(* Test runner: run_test -> _execute_test of CORENET6498Runner             *)
(* (src/tools/egressip/corenet_6498_runner.py), one call per MCP request,  *)
(* interleaved by the event loop where a call awaits a subprocess.         *)

Executions == 1..MaxExecutions

\* line 174: the directory mkdtemp made for the execution
TempDir(e) == e

\* lines 30-46: the call starts and awaits the commands of the pre-test validation
RunTest(e) ==
    /\ run_pc[e] = "idle"
    /\ run_pc' = [run_pc EXCEPT ![e] = "pre_check"]
    /\ UNCHANGED <<cwd, original_cwd, spawn_dirs, run_result>>
    /\ UNCHANGED <<anVars, cmpVars, monVars, caVars, pxVars, ccVars, seVars, trVars, fpVars, nhVars, elVars>>

\* lines 39-52 and 284-308: the validation is over; unless it failed or the
\* environment could not be prepared, _execute_test remembers the working
\* directory, changes to the test directory and starts `go mod tidy`, which
\* may fail to start
StartExecution(e) ==
    /\ run_pc[e] = "pre_check"
    /\ \E outcome \in {"invalid", "not_ready", "spawn_raised", "spawned"} :
           CASE outcome = "invalid" ->
                   /\ run_pc' = [run_pc EXCEPT ![e] = "done"]
                   /\ run_result' = [run_result EXCEPT ![e] =
                          [status |-> "failed", error |-> "Pre-test validation failed"]]
                   /\ UNCHANGED <<cwd, original_cwd, spawn_dirs>>
             [] outcome = "not_ready" ->
                   /\ run_pc' = [run_pc EXCEPT ![e] = "done"]
                   /\ run_result' = [run_result EXCEPT ![e] =
                          [status |-> "failed", error |-> "Test environment not ready"]]
                   /\ UNCHANGED <<cwd, original_cwd, spawn_dirs>>
             [] outcome = "spawn_raised" ->
                   \* os.chdir(temp_dir), then the finally clause: os.chdir(original_cwd)
                   /\ run_pc' = [run_pc EXCEPT ![e] = "done"]
                   /\ original_cwd' = [original_cwd EXCEPT ![e] = cwd]
                   /\ cwd' = cwd
                   /\ run_result' = [run_result EXCEPT ![e] =
                          [status |-> "error", execution_time |-> 0]]
                   /\ UNCHANGED spawn_dirs
             [] outcome = "spawned" ->
                   /\ run_pc' = [run_pc EXCEPT ![e] = "tidy"]
                   /\ original_cwd' = [original_cwd EXCEPT ![e] = cwd]
                   /\ cwd' = TempDir(e)
                   /\ spawn_dirs' = [spawn_dirs EXCEPT ![e] = <<TempDir(e)>>]
                   /\ UNCHANGED run_result
    /\ UNCHANGED <<anVars, cmpVars, monVars, caVars, pxVars, ccVars, seVars, trVars, fpVars, nhVars, elVars>>

\* lines 309-328: `go mod tidy` is over and ginkgo is started, in the working
\* directory of that moment; if it fails to start, the finally clause runs
TidyDone(e) ==
    /\ run_pc[e] = "tidy"
    /\ \E raised \in BOOLEAN :
           IF raised
           THEN /\ run_pc' = [run_pc EXCEPT ![e] = "done"]
                /\ cwd' = original_cwd[e]
                /\ run_result' = [run_result EXCEPT ![e] =
                       [status |-> "error", execution_time |-> 0]]
                /\ UNCHANGED spawn_dirs
           ELSE /\ run_pc' = [run_pc EXCEPT ![e] = "ginkgo"]
                /\ spawn_dirs' = [spawn_dirs EXCEPT ![e] = Append(@, cwd)]
                /\ UNCHANGED <<cwd, run_result>>
    /\ UNCHANGED original_cwd
    /\ UNCHANGED <<anVars, cmpVars, monVars, caVars, pxVars, ccVars, seVars, trVars, fpVars, nhVars, elVars>>

\* lines 330-345: ginkgo is over, the result is built and the finally clause
\* changes back to original_cwd
GinkgoDone(e) ==
    /\ run_pc[e] = "ginkgo"
    /\ run_pc' = [run_pc EXCEPT ![e] = "done"]
    /\ cwd' = original_cwd[e]
    /\ \E returncode \in {0, 1} :
           run_result' = [run_result EXCEPT ![e] =
               [status |-> "completed", exit_code |-> returncode,
                test_passed |-> returncode = 0, temp_dir |-> TempDir(e)]]
    /\ UNCHANGED <<original_cwd, spawn_dirs>>
    /\ UNCHANGED <<anVars, cmpVars, monVars, caVars, pxVars, ccVars, seVars, trVars, fpVars, nhVars, elVars>>

RunInit ==
    AnIdle /\ CmpIdle /\ MonIdle /\ CaIdle /\ PxIdle /\ CcIdle /\ SeIdle /\ TrIdle /\ FpIdle
    /\ NhIdle /\ ElIdle /\ RunIdle

RunNext ==
    \E e \in Executions :
        \/ RunTest(e)
        \/ StartExecution(e)
        \/ TidyDone(e)
        \/ GinkgoDone(e)

SpecRunner == RunInit /\ [][RunNext]_vars

-----------------------------------------------------------------------------
(* What the claims read, computed from the executor's answers.             *)

\* the external IPs of the lines `snat <ip> <ip> <port>` of an lr-nat-list answer
ExternalIPsOf(answer) ==
    IF answer.raised \/ answer.returncode # 0 THEN {}
    ELSE {Split(answer.stdout[i])[2] :
              i \in {j \in 1..Len(answer.stdout) :
                        /\ Len(Split(answer.stdout[j])) >= 4
                        /\ Lower(Split(answer.stdout[j])[1]) = "snat"}}

\* the IPs the status of the EgressIP objects assigns
AssignedIPsOf(answer) ==
    {ip \in IPs : \E k \in 1..Len(answer.items) :
                      \E s \in answer.items[k].status_items : Has(s, "egressIP") /\ s.egressIP = ip}

ContextReached(answer) == ~answer.raised /\ answer.returncode = 0 /\ answer.json_ok

ReportsScore(cc, n, d) ==
    /\ Has(cc, "consistency_score")
    /\ cc.consistency_score.num * d = n * cc.consistency_score.den

-----------------------------------------------------------------------------
(* C1 - C3: single-node analysis (SpecAnalysis).                           *)

\* C1: whenever the SNAT external-IP set or the LRP IP-reference set is
\* empty, the consistency report carries no score: it reports neither 0 nor 1.
C1_NoScoreWhenEmpty ==
    (/\ an_pc = "done"
     /\ \/ ExternalIPsOf(an_env.snat) = {}
        \/ analysis.consistency_check.details.lrp_ip_references = {})
    => /\ ~ReportsScore(analysis.consistency_check, 0, 1)
       /\ ~ReportsScore(analysis.consistency_check, 1, 1)

\* C2: with an assignment context that was reached, missing_snat_rules is
\* exactly assigned minus SNAT-external and unexpected_snat_rules is exactly
\* SNAT-external minus assigned.
C2_ExactSetDifferences ==
    (an_pc = "done" /\ ContextReached(an_env.eip))
    => /\ analysis.egressip_validation.missing_snat_rules
              = AssignedIPsOf(an_env.eip) \ ExternalIPsOf(an_env.snat)
       /\ analysis.egressip_validation.unexpected_snat_rules
              = ExternalIPsOf(an_env.snat) \ AssignedIPsOf(an_env.eip)

\* assigned {B, C} against SNAT-external {A, B}: missing {C}, unexpected {A}
C2_Witness ==
    /\ an_pc = "done"
    /\ ContextReached(an_env.eip)
    /\ AssignedIPsOf(an_env.eip) = {"10.0.0.2", "10.0.0.3"}
    /\ ExternalIPsOf(an_env.snat) = {"10.0.0.1", "10.0.0.2"}
    /\ analysis.egressip_validation.missing_snat_rules = {"10.0.0.3"}
    /\ analysis.egressip_validation.unexpected_snat_rules = {"10.0.0.1"}

\* C3: when the egressips query exits non-zero or raises, validation is
\* marked not possible with the error recorded, no validation_passed value
\* exists, and no IP is reported as missing or unexpected.
C3_UnreachableIsNotPossible ==
    (an_pc = "done" /\ ~ContextReached(an_env.eip))
    => /\ analysis.egressip_validation.validation_possible = FALSE
       /\ Has(analysis.egressip_validation, "error")
       /\ ~Has(analysis.egressip_validation.validation_summary, "validation_passed")
       /\ analysis.egressip_validation.unexpected_snat_rules = {}
       /\ analysis.egressip_validation.missing_snat_rules = {}

\* the query raised while the node has SNAT rules that zero assignments
\* would make unexpected
C3_Witness ==
    /\ an_pc = "done"
    /\ an_env.eip.raised
    /\ ExternalIPsOf(an_env.snat) # {}
    /\ analysis.egressip_validation.validation_possible = FALSE

-----------------------------------------------------------------------------
(* C4 - C5: change detection and stability (SpecChanges).                  *)

Differs(prev, curr) ==
    \/ prev.snat_count # curr.snat_count
    \/ prev.lrp_count # curr.lrp_count
    \/ prev.snat_rules_hash # curr.snat_rules_hash
    \/ prev.lrp_rules_hash # curr.lrp_rules_hash

\* the positions i whose snapshot differs from the one before it
DifferingPairs(snaps) == {i \in 2..Len(snaps) : Differs(snaps[i - 1], snaps[i])}

\* the k-th of them
KthDiffering(snaps, k) ==
    CHOOSE i \in DifferingPairs(snaps) :
        Cardinality({j \in DifferingPairs(snaps) : j <= i}) = k

\* the sub-fields an event for the pair (i-1, i) must populate
ExpectedSubFields(snaps, i) ==
    {f \in {"snat_count_change", "lrp_count_change", "snat_content_change",
            "lrp_content_change"} :
        \/ f = "snat_count_change" /\ snaps[i - 1].snat_count # snaps[i].snat_count
        \/ f = "lrp_count_change" /\ snaps[i - 1].lrp_count # snaps[i].lrp_count
        \/ f = "snat_content_change" /\ snaps[i - 1].snat_rules_hash # snaps[i].snat_rules_hash
        \/ f = "lrp_content_change" /\ snaps[i - 1].lrp_rules_hash # snaps[i].lrp_rules_hash}

EventsOf(ca) == IF Has(ca, "changes") THEN ca.changes ELSE <<>>

\* C4: the events are, in order, one per adjacent pair that differs in at
\* least one of the four fields, each with exactly the sub-fields that differ;
\* a pair with all four fields equal has no event.
C4_OneEventPerDifferingPair ==
    ca_snapshots # <<>>
    => /\ Len(EventsOf(change_analysis)) = Cardinality(DifferingPairs(ca_snapshots))
       /\ \A k \in 1..Len(EventsOf(change_analysis)) :
              DOMAIN EventsOf(change_analysis)[k]
                  = ExpectedSubFields(ca_snapshots, KthDiffering(ca_snapshots, k))

\* three snapshots: the first pair differs in two SNAT fields and in two LRP
\* fields at once, the second pair is equal; one event with four sub-fields
C4_Witness ==
    /\ Len(ca_snapshots) = 3
    /\ ca_snapshots[1].snat_count # ca_snapshots[2].snat_count
    /\ ca_snapshots[1].lrp_count # ca_snapshots[2].lrp_count
    /\ ca_snapshots[2] = ca_snapshots[3]
    /\ Len(change_analysis.changes) = 1
    /\ Cardinality(DOMAIN change_analysis.changes[1]) = 4

SnatCountChanges(snaps) ==
    Cardinality({i \in 2..Len(snaps) : snaps[i - 1].snat_count # snaps[i].snat_count})

\* C5: of a list of at least two snapshots (every completed session has as
\* many), the assessment is decided by the number of pairs that differ: none
\* gives stable/high and an empty event list, 1 or 2 give
\* mostly_stable/medium, 3 or more give unstable/high; snat_count changing at
\* 4 samples gives at least 4 events and unstable.
C5_StabilityByEventCount ==
    Len(ca_snapshots) >= 2
    => LET n == Cardinality(DifferingPairs(ca_snapshots)) IN
       /\ n = 0 => /\ stability.stability = "stable"
                   /\ stability.confidence = "high"
                   /\ change_analysis.changes = <<>>
       /\ n \in 1..2 => /\ stability.stability = "mostly_stable"
                        /\ stability.confidence = "medium"
       /\ n >= 3 => /\ stability.stability = "unstable"
                    /\ stability.confidence = "high"
       /\ SnatCountChanges(ca_snapshots) >= 4
              => /\ change_analysis.total_change_events >= 4
                 /\ stability.stability = "unstable"

\* snat_count changes at 4 samples
C5_Witness ==
    /\ Len(ca_snapshots) >= 5
    /\ SnatCountChanges(ca_snapshots) = 4
    /\ stability.stability = "unstable"

-----------------------------------------------------------------------------
(* C6 - C9: monitoring sessions (SpecMonitor).                             *)

\* C6 as stated: every inter-sample sleep lasts max(30, duration/10) seconds.
C6_IntervalIsMax ==
    \A k \in 1..Len(sleep_log) : sleep_log[k] = Max(30, duration_seconds \div 10)

\* min(30, floor(d / 10)), written out
ExpectedInterval(d) == IF d >= 300 THEN 30 ELSE d \div 10

\* C6 as amended: the interval computed is min(30, duration // 10), and every
\* inter-sample sleep lasts exactly that long.
C6_IntervalIsMin ==
    /\ check_interval # -1 => check_interval = ExpectedInterval(duration_seconds)
    /\ \A k \in 1..Len(sleep_log) : sleep_log[k] = ExpectedInterval(duration_seconds)

\* a 100 s session that has slept 10 s twice
C6_Witness ==
    /\ duration_seconds = 100
    /\ mon_pc = "exec"
    /\ sleep_log = <<10, 10>>

\* C7: whatever the duration, a session that has ended ended in success and
\* took at least 10 samples after the baseline.
C7_AnyDurationSamples ==
    mon_pc = "done"
    => /\ mon_result.status = "success"
       /\ Len(snapshots) >= 11

\* C8: a session in which the executor failed outright returns the snapshots
\* collected before the failure with an abort reason, and the failed sample
\* is not among its snapshots.
C8_AbortKeepsSnapshots ==
    (mon_pc = "done" /\ Len(snapshots) > 1 /\ exec_failures # {})
    => LET first == CHOOSE i \in exec_failures : \A j \in exec_failures : i <= j IN
       /\ Has(mon_result, "abort_reason")
       /\ Has(mon_result, "detailed_snapshots")
       /\ mon_result.detailed_snapshots = SubSeq(snapshots, 1, first - 1)

\* C9: a session cancelled after it took snapshots still returns them all.
C9_CancelKeepsSnapshots ==
    (mon_pc = "cancelled" /\ snapshots # <<>>)
    => /\ Has(mon_result, "detailed_snapshots")
       /\ mon_result.detailed_snapshots = snapshots

-----------------------------------------------------------------------------
(* C10: multi-node comparison (SpecCompare).                               *)

\* the nodes for which a comparison carries a result or an error
ReportedNodes(c) ==
    IF Has(c, "rule_count_comparison") THEN DOMAIN c.rule_count_comparison ELSE {}

\* C10: the comparison of a non-empty list of nodes carries a result or an
\* error for each of them.
C10_ResultPerNode ==
    (cmp_pc = "done" /\ node_names # <<>>)
    => \A i \in 1..Len(node_names) : node_names[i] \in ReportedNodes(comparison)

-----------------------------------------------------------------------------
(* C11, C13, C14: single-node analysis (SpecAnalysis).                     *)

ExtractionFailed(answer) == answer.raised \/ answer.returncode # 0

\* the analysis of the same node had the failed listings succeeded and
\* found no line
AnalysisOfEmptyListings(env) ==
    analyze_node_rules("worker-0",
        [env EXCEPT !.snat = IF ExtractionFailed(env.snat) THEN ExecOk(<<>>) ELSE env.snat,
                    !.lrp = IF ExtractionFailed(env.lrp) THEN ExecOk(<<>>) ELSE env.lrp])

\* C11: a node whose SNAT or LRP listing failed is told apart from a node
\* whose listing succeeded and found no rule: its rule counts, its consistency
\* report or its stored metrics differ.
C11_FailureDistinguishable ==
    (/\ an_pc = "done"
     /\ ExtractionFailed(an_env.snat) \/ ExtractionFailed(an_env.lrp))
    => \/ analysis.rule_counts # AnalysisOfEmptyListings(an_env).rule_counts
       \/ analysis.consistency_check # AnalysisOfEmptyListings(an_env).consistency_check
       \/ _collect_node_ovn_metrics(analysis)
              # _collect_node_ovn_metrics(AnalysisOfEmptyListings(an_env))

NoIssuesAdvisory == <<"OVN rules analysis shows no major issues">>

SyncAdvisory == <<"Poor correlation between SNAT and LRP rules">>

\* one of the conditions of lines 526-547 holds of the analysis
AdvisoryConditionFires(a) ==
    \/ a.snat_analysis.total_rules = 0
    \/ a.snat_analysis.parsed_successfully < a.snat_analysis.total_rules
    \/ a.lrp_analysis.total_rules = 0
    \/ a.lrp_analysis.parsed_successfully < a.lrp_analysis.total_rules
    \/ 2 * a.consistency_check.consistency_score.num < a.consistency_check.consistency_score.den
    \/ /\ a.egressip_validation.validation_possible
       /\ \/ a.egressip_validation.missing_snat_rules # {}
          \/ a.egressip_validation.unexpected_snat_rules # {}

\* C13: the recommendation list is never empty; it is the single no-issues
\* advisory when no condition fires, and lacks that advisory when one does.
C13_RecommendationsNeverEmpty ==
    an_pc = "done"
    => /\ analysis.recommendations # <<>>
       /\ ~AdvisoryConditionFires(analysis)
              => analysis.recommendations = <<NoIssuesAdvisory>>
       /\ AdvisoryConditionFires(analysis)
              => NoIssuesAdvisory \notin Range(analysis.recommendations)

\* all rules parse, every SNAT IP has its LRP reference and its assignment
C13_Witness ==
    /\ an_pc = "done"
    /\ ~AdvisoryConditionFires(analysis)
    /\ analysis.rule_counts.snat_rules > 0
    /\ analysis.egressip_validation.validation_possible
    /\ analysis.recommendations = <<NoIssuesAdvisory>>

\* C14: whenever the correlation is classified poor, the recommendations
\* contain the synchronization advisory.
C14_PoorGivesSyncAdvisory ==
    (an_pc = "done" /\ analysis.consistency_check.snat_lrp_correlation = "poor")
    => SyncAdvisory \in Range(analysis.recommendations)

-----------------------------------------------------------------------------
(* C12: concurrent monitoring sessions (SpecSessions).                     *)

\* the snapshot of the k-th sample the executor answered for the node: a
\* SNAT listing and the LRP listing after it make one snapshot
OwnSnapshot(node_name, k) ==
    _take_rule_snapshot([snat |-> exec_given[node_name][2 * k - 1],
                         lrp |-> exec_given[node_name][2 * k]])

OwnSnapshots(node_name) ==
    [k \in 1..(Len(exec_given[node_name]) \div 2) |-> OwnSnapshot(node_name, k)]

\* C12: under every interleaving, the snapshot list of the session on a
\* node holds exactly the snapshots taken of that node, in the order taken
\* (while the session runs: as many, the latest last; once it has returned:
\* the whole list), and what the session returns is derived from that list
\* alone.
C12_SessionsShareNothing ==
    \A node_name \in Nodes :
        LET list == se_snapshots[SnapshotListOf(node_name)]
            taken == Len(exec_given[node_name]) \div 2
        IN  /\ se_pc[node_name] # "idle"
                   => /\ Len(list) = taken
                      /\ taken > 0 => list[taken] = OwnSnapshot(node_name, taken)
            /\ se_pc[node_name] = "done" => list = OwnSnapshots(node_name)
            /\ (se_pc[node_name] = "done" /\ se_result[node_name].status = "success")
                   => /\ se_result[node_name].detailed_snapshots = list
                      /\ se_result[node_name].snapshots_taken = taken
                      /\ se_result[node_name].change_analysis = _analyze_rule_changes(list)
                      /\ se_result[node_name].stability_assessment
                             = _assess_rule_stability(_analyze_rule_changes(list))

\* one session has returned with a change seen, while the other is in the
\* middle of a sample
C12_Witness ==
    /\ se_pc["worker-0"] = "done"
    /\ se_result["worker-0"].status = "success"
    /\ se_result["worker-0"].change_analysis.changes_detected
    /\ se_pc["worker-1"] = "lrp"
    /\ Len(se_snapshots["worker-1"]) > 2
    /\ Len(se_snapshots["worker-1"]) < Len(se_snapshots["worker-0"])

-----------------------------------------------------------------------------
(* C15, C16: the correlation of SNAT and LRP rules (SpecConsistency).      *)

\* the IPv4 literals in the second field and after it of the LRP lines that
\* have three fields or more
LrpReferencesOf(answer) ==
    IF answer.raised \/ answer.returncode # 0 THEN {}
    ELSE UNION {UNION {FindIPs(Split(answer.stdout[i])[j]) :
                           j \in 2..Len(Split(answer.stdout[i]))} :
                    i \in {k \in 1..Len(answer.stdout) : Len(Split(answer.stdout[k])) >= 3}}

Correlated == ExternalIPsOf(cc_answers.snat) \cap LrpReferencesOf(cc_answers.lrp)

ScoreComputed ==
    /\ cc_pc = "done"
    /\ ExternalIPsOf(cc_answers.snat) # {}
    /\ LrpReferencesOf(cc_answers.lrp) # {}

\* C15: with both IP sets non-empty the score is the share of the SNAT
\* external IPs that are LRP references; it lies in [0, 1], is 1 exactly when
\* all of them are referenced and 0 exactly when none is, and then the
\* correlation is poor with an issue reported.
C15_ScoreIsShareOfSnatIPs ==
    ScoreComputed
    => LET score == consistency.consistency_score
           total == Cardinality(ExternalIPsOf(cc_answers.snat))
       IN  /\ score.den > 0
           /\ score.num * total = Cardinality(Correlated) * score.den
           /\ 0 <= score.num /\ score.num <= score.den
           /\ score.num = score.den <=> ExternalIPsOf(cc_answers.snat) \subseteq LrpReferencesOf(cc_answers.lrp)
           /\ score.num = 0 <=> Correlated = {}
           /\ score.num = 0 => /\ consistency.snat_lrp_correlation = "poor"
                               /\ consistency.issues_found # <<>>

\* two of three SNAT external IPs are referenced, among other references
C15_Witness ==
    /\ ScoreComputed
    /\ Cardinality(ExternalIPsOf(cc_answers.snat)) = 3
    /\ Cardinality(Correlated) = 2
    /\ Cardinality(LrpReferencesOf(cc_answers.lrp)) > 3
    /\ consistency.consistency_score = Float(2, 3)

\* C16: a computed score above 0.8 is good, one above 0.5 and at most 0.8
\* is moderate, one of at most 0.5 is poor; the issue is reported exactly
\* when the correlation is poor.
C16_Thresholds ==
    ScoreComputed
    => LET n == Cardinality(Correlated)
           d == Cardinality(ExternalIPsOf(cc_answers.snat))
           low == "Low correlation between SNAT and LRP rules" \in Range(consistency.issues_found)
       IN  /\ 10 * n > 8 * d => consistency.snat_lrp_correlation = "good"
           /\ (2 * n > d /\ 10 * n <= 8 * d) => consistency.snat_lrp_correlation = "moderate"
           /\ 2 * n <= d => consistency.snat_lrp_correlation = "poor"
           /\ low <=> consistency.snat_lrp_correlation = "poor"
           /\ Len(consistency.issues_found) = IF low THEN 1 ELSE 0

\* four of five: exactly 0.8, which is moderate
C16_Witness ==
    /\ ScoreComputed
    /\ consistency.consistency_score = Float(4, 5)
    /\ consistency.snat_lrp_correlation = "moderate"
    /\ consistency.issues_found = <<>>

-----------------------------------------------------------------------------
(* C17 .. C20: rule extraction (SpecParser).                               *)

Listed == ~px_answer.raised /\ px_answer.returncode = 0

\* the lines of the listing that hold 'snat' in any case, in their order
SnatLineHasSnat(line) == \E i \in 1..Len(line) : HasSnatSubstring(Lower(line[i]))

EligibleSnat == SelectSeq(px_answer.stdout, SnatLineHasSnat)

\* the lines that are not blank and whose first field does not begin with
\* 'Routing', in their order
LrpLineIsData(line) ==
    /\ \E i \in 1..Len(line) : line[i] # ""
    /\ ~StartsWithRouting(Split(line)[1])

EligibleLrp == SelectSeq(px_answer.stdout, LrpLineIsData)

\* the line is `snat <externalIP> <logicalIP> <logicalPort>`
MatchesSnatPattern(line) ==
    Len(Split(line)) >= 4 /\ Lower(Split(line)[1]) = "snat"

\* line without the whitespace around it
RECURSIVE Trimmed(_)
Trimmed(line) ==
    IF line = <<>> THEN line
    ELSE IF line[1] = "" THEN Trimmed(SubSeq(line, 2, Len(line)))
    ELSE IF line[Len(line)] = "" THEN Trimmed(SubSeq(line, 1, Len(line) - 1))
    ELSE line

\* what follows the second field of a line that has three fields or more,
\* from its third field to its end
RECURSIVE AfterFields(_, _)
AfterFields(line, n) ==
    IF line[1] = "" THEN AfterFields(Tail(line), n)
    ELSE IF n = 0 THEN line
    ELSE AfterFields(Tail(line), n - 1)

\* C17: a listed line `snat <ext> <log> <port>` (leading token in any case)
\* gives a record that parsed and whose external_ip, logical_ip and
\* logical_port are the second, third and fourth token of the line.
C17_SnatPatternParsed ==
    (px_pc = "snat" /\ Listed)
    => \A i \in 1..Len(px_answer.stdout) :
           MatchesSnatPattern(px_answer.stdout[i])
           => \E k \in 1..Len(px_rules) :
                  /\ px_rules[k].raw_rule = Trimmed(px_answer.stdout[i])
                  /\ px_rules[k].parsed_successfully
                  /\ px_rules[k].external_ip = Split(px_answer.stdout[i])[2]
                  /\ px_rules[k].logical_ip = Split(px_answer.stdout[i])[3]
                  /\ px_rules[k].logical_port = Split(px_answer.stdout[i])[4]

\* lines in lower, upper and mixed case, with whitespace before, between
\* and after the tokens, have been parsed
C17_Witness ==
    /\ px_pc = "snat"
    /\ px_answer.stdout = <<S1, S2, S7>>
    /\ Len(px_rules) = 3
    /\ \A k \in 1..3 : px_rules[k].parsed_successfully

\* C18: a listed line that holds 'snat' and is not of the SNAT pattern is in
\* the rule list as a record that did not parse, without typed fields, whose
\* raw text is the line as the parser got it.
C18_NonMatchingKept ==
    (px_pc = "snat" /\ Listed)
    => /\ Len(px_rules) = Len(EligibleSnat)
       /\ \A k \in 1..Len(px_rules) :
              ~MatchesSnatPattern(EligibleSnat[k])
              => px_rules[k] = [type |-> "snat", raw_rule |-> Trimmed(EligibleSnat[k]),
                                parsed_successfully |-> FALSE]

C18_Witness ==
    /\ px_pc = "snat"
    /\ px_answer.stdout = <<S6, S1, S4>>
    /\ Len(px_rules) = 3
    /\ ~px_rules[1].parsed_successfully
    /\ ~px_rules[3].parsed_successfully

\* C19: a blank line or a line beginning with 'Routing' gives no record;
\* every other line with three fields or more gives a record that parsed,
\* with the first field as priority, the second as match and all that
\* follows the second field, as it stands, as action.
C19_LrpFields ==
    (px_pc = "lrp" /\ Listed)
    => /\ Len(px_rules) = Len(EligibleLrp)
       /\ \A k \in 1..Len(px_rules) :
              Len(Split(EligibleLrp[k])) >= 3
              => /\ px_rules[k].raw_rule = Trimmed(EligibleLrp[k])
                 /\ px_rules[k].parsed_successfully
                 /\ px_rules[k].priority = Split(EligibleLrp[k])[1]
                 /\ px_rules[k].match = Split(EligibleLrp[k])[2]
                 /\ px_rules[k].action = AfterFields(Trimmed(EligibleLrp[k]), 2)

\* a header, a blank line and a rule whose action holds two spaces in a row
C19_Witness ==
    /\ px_pc = "lrp"
    /\ px_answer.stdout = <<L3, <<"">>, L2>>
    /\ Len(px_rules) = 1
    /\ px_rules[1].action = <<"reroute", "", "10.0.0.2">>

\* the priorities the summary could not read as integers, in rule order
RECURSIVE UnreadablePriorities(_)
UnreadablePriorities(lines) ==
    IF lines = <<>> THEN <<>>
    ELSE (IF Len(Split(Head(lines))) >= 3 /\ ~ParseInt(Split(Head(lines))[1])[1]
          THEN <<<<"Invalid priority", Split(Head(lines))[1]>>>> ELSE <<>>)
             \o UnreadablePriorities(Tail(lines))

IsInvalidPriority(issue) == issue[1] = "Invalid priority"

\* C20: the rule list has one record per eligible line of the listing, in
\* the order of the lines, whether or not a line parses; an LRP priority that
\* is no integer stays in its record and the summary reports it as an issue.
C20_OneRecordPerEligibleLine ==
    (px_pc # "idle" /\ Listed)
    => LET eligible == IF px_pc = "snat" THEN EligibleSnat ELSE EligibleLrp IN
       /\ Len(px_rules) = Len(eligible)
       /\ \A k \in 1..Len(px_rules) : px_rules[k].raw_rule = Trimmed(eligible[k])
       /\ px_summary.total_rules = Len(eligible)
       /\ px_pc = "lrp"
              => SelectSeq(px_summary.potential_issues, IsInvalidPriority)
                     = UnreadablePriorities(EligibleLrp)

\* a line that does not parse and a priority that is no integer stand
\* between two rules
C20_Witness ==
    /\ px_pc = "lrp"
    /\ px_answer.stdout = <<L4, L6, L1>>
    /\ Len(px_rules) = 3
    /\ px_rules[2].priority = "abc"
    /\ px_summary.potential_issues
           = << <<"Failed to parse rule", L4>>, <<"Invalid priority", "abc">> >>

-----------------------------------------------------------------------------
(* C25, C26: the order and the timing of the samples (SpecMonitor).        *)

\* C25: the baseline snapshot is taken before any sleep, and every later
\* snapshot comes after exactly one more sleep of the sampling interval:
\* while the call waits for the executor there are as many sleeps behind it
\* as snapshots, otherwise one sleep less than snapshots.
C25_BaselineBeforeSleep ==
    /\ snapshots = <<>> => sleep_log = <<>>
    /\ (snapshots # <<>> /\ mon_pc \in {"sleep", "done"})
           => Len(sleep_log) = Len(snapshots) - 1
    /\ (snapshots # <<>> /\ mon_pc = "exec") => Len(sleep_log) = Len(snapshots)
    /\ mon_pc = "cancelled" => Len(sleep_log) \in {Len(snapshots) - 1, Len(snapshots)}
    /\ \A k \in 1..Len(sleep_log) : sleep_log[k] = check_interval /\ check_interval > 0

\* a session has returned its baseline and ten samples, ten sleeps between
C25_Witness ==
    /\ mon_pc = "done"
    /\ mon_result.status = "success"
    /\ Len(mon_result.detailed_snapshots) = 11
    /\ Len(sleep_log) = 10

\* seconds since start_time (line 123): the sleeps over and the time the
\* executor took over the snapshots taken
RECURSIVE SumOf(_)
SumOf(s) == IF s = <<>> THEN 0 ELSE Head(s) + SumOf(Tail(s))

Elapsed == SumOf(sleep_log) + Len(snapshots) * exec_seconds

\* C26: the loop ends when the elapsed time reaches the requested duration:
\* no sample is started once more than duration_seconds have passed.
C26_NoSampleAfterBudget ==
    (mon_pc = "exec" /\ snapshots # <<>>) => Elapsed <= duration_seconds

-----------------------------------------------------------------------------
(* C27: the IP references of the LRP rules (SpecConsistency).              *)

\* each of the four octets of the dotted quad is within 0..255
OctetsInRange(ip) == ip \notin {"999.1.1.1"}

\* C27: the LRP IP references hold only dotted quads whose octets are
\* within 0..255, and no other token counts as correlated.
C27_OctetsValidated ==
    cc_pc = "done"
    => /\ \A ip \in consistency.details.lrp_ip_references : OctetsInRange(ip)
       /\ \A ip \in consistency.details.correlated_ips : OctetsInRange(ip)

-----------------------------------------------------------------------------
(* C28: the synchronization advisory (SpecAnalysis).                       *)

\* C28: when no correlation was computed (classification unknown), the
\* recommendations do not hold the synchronization advisory.
C28_NoAdvisoryWithoutScore ==
    (an_pc = "done" /\ analysis.consistency_check.snat_lrp_correlation = "unknown")
    => SyncAdvisory \notin Range(analysis.recommendations)

-----------------------------------------------------------------------------
(* C21 - C22: trend analysis (SpecTrends).                                 *)

TrendWords == {"increasing", "decreasing", "stable"}

\* the series _calculate_trends derives from the fetched rows, each with the
\* trend reported for it
ReportedSeries ==
    LET a == trend_result.trend_analysis
    IN  IF tr_metric_type = "egressip_status"
        THEN {<<Column(trend_data, "unique_egressips"), a.egressip_trend>>,
              <<Column(trend_data, "avg_pod_count"), a.pod_count_trend>>}
        ELSE IF tr_metric_type = "ovn_rules"
        THEN {<<Column(trend_data, "avg_snat_rules"), a.snat_rules_trend>>,
              <<Column(trend_data, "avg_lrp_rules"), a.lrp_rules_trend>>,
              <<Column(trend_data, "avg_consistency"), a.consistency_trend>>}
        ELSE {<<Column(trend_data, "avg_execution_time"), a.execution_time_trend>>,
              <<PassRates(trend_data), a.pass_rate_trend>>}

FDivSigned(a, b) ==
    IF b.num > 0 THEN Float(a.num * b.den, a.den * b.num)
    ELSE Float((-a.num) * b.den, a.den * (-b.num))

\* the trend of a series of 2 or more values as C22 states it
StatedTrend(values) ==
    LET mid == Len(values) \div 2
        firstHalfAvg == FDivInt(FSum(SubSeq(values, 1, mid)), mid)
        secondHalfAvg == FDivInt(FSum(SubSeq(values, mid + 1, Len(values))), Len(values) - mid)
        change == IF firstHalfAvg.num # 0
                  THEN FMulInt(FDivSigned(FSub(secondHalfAvg, firstHalfAvg), firstHalfAvg), 100)
                  ELSE Float(0, 1)
    IN  IF FGt(change, Float(10, 1)) THEN "increasing"
        ELSE IF FGt(Float(-10, 1), change) THEN "decreasing"
        ELSE "stable"

\* C22: for every series of 2 or more values _simple_trend splits the series
\* at floor(len / 2), averages the halves, takes the percent change
\* (second - first) / first * 100 whenever the first-half average is non-zero
\* (0 otherwise) and answers increasing above +10, decreasing below -10 and
\* stable otherwise; [10, 20] is increasing, [20, 10] decreasing and
\* [10, 10.5] stable.
C22_SimpleTrend ==
    (tr_pc = "simple" /\ Len(tr_values) >= 2)
    => /\ tr_trend = StatedTrend(tr_values)
       /\ tr_values = <<Float(10, 1), Float(20, 1)>> => tr_trend = "increasing"
       /\ tr_values = <<Float(20, 1), Float(10, 1)>> => tr_trend = "decreasing"
       /\ tr_values = <<Float(10, 1), Float(21, 2)>> => tr_trend = "stable"

-----------------------------------------------------------------------------
(* C23: fingerprints (SpecFingerprints).                                   *)

\* how often a raw rule text occurs in a list of rules
Occurrences(raw, rules) == Cardinality({i \in 1..Len(rules) : rules[i].raw_rule = raw})

\* two lists of rules hold the same multiset of raw rule texts
SameRawRules(a, b) ==
    \A raw \in {a[i].raw_rule : i \in 1..Len(a)} \cup {b[i].raw_rule : i \in 1..Len(b)} :
        Occurrences(raw, a) = Occurrences(raw, b)

ContentChangeEvents(key) ==
    {k \in 1..Len(fp_changes.changes) : key \in DOMAIN fp_changes.changes[k]}

\* C23: the fingerprint does not depend on the order of the listing: two
\* samples whose SNAT (LRP) rules are the same multiset of raw rule texts get
\* the same SNAT (LRP) fingerprint, and the comparison of the two adjacent
\* snapshots reports no snat_content_change (lrp_content_change).
C23_OrderIndependent ==
    fp_pc = "done" =>
        /\ SameRawRules(_get_snat_rules(fp_obs[1].snat), _get_snat_rules(fp_obs[2].snat))
           => /\ fp_snapshots[1].snat_rules_hash = fp_snapshots[2].snat_rules_hash
              /\ ContentChangeEvents("snat_content_change") = {}
        /\ SameRawRules(_get_lrp_rules(fp_obs[1].lrp), _get_lrp_rules(fp_obs[2].lrp))
           => /\ fp_snapshots[1].lrp_rules_hash = fp_snapshots[2].lrp_rules_hash
              /\ ContentChangeEvents("lrp_content_change") = {}

C23_Witness ==
    /\ fp_pc = "done"
    /\ fp_obs[1].snat.stdout = <<S1, S2>>
    /\ fp_obs[2].snat.stdout = <<S2, S1>>
    /\ fp_obs[1].lrp.stdout = <<L1, L2>>
    /\ fp_obs[2].lrp.stdout = <<L2, L1>>
    /\ fp_snapshots[1] = fp_snapshots[2]
    /\ ~fp_changes.changes_detected

-----------------------------------------------------------------------------
(* C24: node health over the node groups (SpecNodeHealth).                 *)

\* the collector did not deliver a successful result for the group
GroupFailed(answer) == answer.raised \/ answer.result.status # "success"

\* C24: every node group queried so far is recorded: with an error status
\* when the collector found no nodes, answered a status other than success
\* or raised, and with the collector's result otherwise; the record of a
\* group is never removed; and once a group has been queried the call
\* returns only after all four groups were queried, with all four records
\* in the response, whatever failed on the way.
C24_GroupFailuresIsolated ==
    /\ nh_pc = "loop" \/ (nh_pc = "done" /\ nh_answers # <<>>)
       => /\ DOMAIN node_groups = {NodeGroupOrder[k] : k \in 1..nh_i}
          /\ Len(nh_answers) = nh_i
          /\ \A k \in 1..nh_i :
                 IF GroupFailed(nh_answers[k])
                 THEN node_groups[NodeGroupOrder[k]].status = "error"
                 ELSE node_groups[NodeGroupOrder[k]] = nh_answers[k].result
    /\ (nh_pc = "done" /\ nh_answers # <<>>)
       => /\ nh_i = Len(NodeGroupOrder)
          /\ Has(nh_response, "data")
          /\ nh_response.data.node_groups = node_groups

C24_Witness ==
    /\ nh_pc = "done"
    /\ Len(nh_answers) = 4
    /\ nh_answers[1].raised
    /\ ~nh_answers[2].raised /\ nh_answers[2].result = [status |-> "error", error |-> "No nodes found"]
    /\ ~nh_answers[3].raised /\ nh_answers[3].result = [status |-> "failed"]
    /\ ~GroupFailed(nh_answers[4])
    /\ nh_response.status = "partial_success"
    /\ nh_response.data.node_groups["controlplane"].status = "error"
    /\ nh_response.data.node_groups["infra"].status = "error"
    /\ nh_response.data.node_groups["workload"].status = "error"
    /\ nh_response.data.node_groups["worker"] = nh_answers[4].result
    /\ nh_response.data.health_summary.failed_groups = 3

-----------------------------------------------------------------------------
(* C29: extraction IDs (SpecExtractions).                                  *)

StoredIds(rows) == {rows[k].extraction_id : k \in 1..Len(rows)}

\* C29: an extraction ID identifies one stored extraction: no two rows of
\* elt_extractions share an extraction_id; a call whose generated ID (source
\* type and time of the call to the second) is stored already raises and
\* leaves the table as it was; and every ID returned to a caller is the ID
\* of exactly one row, which holds the data of that call.
C29_ExtractionIdsUnique ==
    /\ \A i, j \in 1..Len(elt_extractions) :
           elt_extractions[i].extraction_id = elt_extractions[j].extraction_id => i = j
    /\ \A c \in 1..Len(elt_log) :
           /\ elt_log[c].generated_id \in StoredIds(elt_log[c].stored_before)
              => /\ elt_log[c].outcome = "raised"
                 /\ elt_log[c].stored_after = elt_log[c].stored_before
           /\ elt_log[c].outcome = "returned"
              => \E k \in 1..Len(elt_extractions) :
                     /\ elt_extractions[k].extraction_id = elt_log[c].returned_id
                     /\ elt_extractions[k].data_json = elt_log[c].data

C29_Witness ==
    /\ Len(elt_log) = 3
    /\ elt_log[1].function = "extract_test_results" /\ elt_log[1].outcome = "returned"
    /\ elt_log[2].function = "extract_metrics_data" /\ elt_log[2].outcome = "raised"
    /\ elt_log[2].generated_id = elt_log[1].returned_id
    /\ elt_log[2].stored_after = elt_log[2].stored_before
    /\ elt_log[3].function = "extract_metrics_data" /\ elt_log[3].outcome = "returned"
    /\ elt_log[3].returned_id[1] = elt_log[1].returned_id[1]
    /\ Len(elt_extractions) = 2

-----------------------------------------------------------------------------
(* C30: the working directory (SpecRunner).                                *)

Awaiting(e) == run_pc[e] \in {"tidy", "ginkgo"}

\* C30: test execution leaves the working directory of the process as it
\* was: when no execution is inside _execute_test the working directory is
\* the one the process had before the first call; while an execution awaits
\* its subprocess the working directory is still the test directory it
\* changed to; and each of its subprocesses was started in that directory.
C30_WorkingDirectoryUnchanged ==
    /\ (\A e \in Executions : ~Awaiting(e)) => cwd = 0
    /\ \A e \in Executions :
           /\ Awaiting(e) => cwd = TempDir(e)
           /\ \A k \in 1..Len(spawn_dirs[e]) : spawn_dirs[e][k] = TempDir(e)

====
